---------------------------- MODULE Spec2Model ----------------------------
(***************************************************************************)
(* BillCheck: the line-item extractor (pdf_extractor.py, llm_extractor.py), *)
(* the description-match validator and the reference price resolver with   *)
(* its 24-hour file cache (cms_data_service.py), and the price assessment  *)
(* engine (routes/compare.py).                                             *)
(*                                                                         *)
(* Conventions.  Python's None is the empty sequence NONE and a present    *)
(* value x is <<x>>.  Money is an integer number of mills (1/1000 dollar), *)
(* so that a reference price with sub-cent digits (an average) and the     *)
(* rounding to cents are both expressible.  Comparisons the code makes in  *)
(* binary floating point are made exactly here.                            *)
(***************************************************************************)
EXTENDS Integers, Sequences, FiniteSets, TLC

VARIABLES
    assess_in,      \* arguments of the assessment under way
    assess_out,     \* what assess_price_cms / assess_price_mock returned
    match_in,       \* the two descriptions handed to the validator
    match_out,      \* what _calculate_description_match returned
    now,            \* the clock, in hours
    cache,          \* CACHE_DIR: cache key -> NONE or [data, mtime]
    call,           \* the resolver call that returned last, with what it did
    prev_call,      \* the last call without a bill description before it
    pc,             \* where the extraction under way stands
    full_text,      \* the lines of text read from the pages
    line_items,     \* the running list of extract_line_items_regex
    table_rows,     \* how many table rows have been read
    returned,       \* what the extractor returned, with the path it took
    fs,             \* the cache directory and the one cache file under study
    reader,         \* a caller inside _read_cache
    writer,         \* a caller inside _write_cache
    clearer,        \* a caller inside clear_cache
    stats,          \* a caller inside get_cache_stats
    compare_in,     \* the request handed to compare_charges and the remote answers
    compare_out,    \* what compare_charges returned
    race,           \* two callers resolving one code at the same time
    code_in,        \* a text, a line or a table row handed to a code picker
    code_out        \* the items or the code it produced

assessVars == <<assess_in, assess_out>>
matchVars == <<match_in, match_out>>
cacheVars == <<now, cache, call, prev_call>>
extractVars == <<pc, full_text, line_items, table_rows, returned>>
codeVars == <<code_in, code_out>>
ioVars == <<fs, reader, writer, clearer, stats>>
compareVars == <<compare_in, compare_out>>
raceVars == <<race>>
vars == <<assess_in, assess_out, match_in, match_out, now, cache, call, prev_call,
          pc, full_text, line_items, table_rows, returned, code_in, code_out,
          fs, reader, writer, clearer, stats, compare_in, compare_out, race>>

\* A component that takes no part in the specification at hand stays idle.
IdleAssess == assess_in = <<>> /\ assess_out = <<>>
IdleMatch == match_in = <<>> /\ match_out = <<>>
IdleCache == now = 0 /\ cache = <<>> /\ call = <<>> /\ prev_call = <<>>
IdleExtract ==
    /\ pc = "idle" /\ full_text = <<>> /\ line_items = <<>>
    /\ table_rows = 0 /\ returned = <<>>
IdleCode == code_in = <<>> /\ code_out = <<>>
IdleIO ==
    /\ fs = <<>> /\ reader = <<>> /\ writer = <<>>
    /\ clearer = <<>> /\ stats = <<>>
IdleCompare == compare_in = <<>> /\ compare_out = <<>>
IdleRace == race = <<>>

NONE == <<>>
Some(x) == <<x>>
IsNone(o) == o = <<>>
Val(o) == o[1]
\* Python truthiness of an optional number: None and 0 are false.
Truthy(o) == o # <<>> /\ o[1] # 0

-----------------------------------------------------------------------------
(* Description-Match Validator: cms_data_service.py                        *)

DRUG_KEYWORDS ==
    {"injection", "infusion", "vaccine", "medication", "drug", "dose",
     "mg", "ml", "mcg", "units", "per", "vial", "tablet", "capsule",
     "ketamine", "lidocaine", "morphine", "fentanyl", "propofol", "antibiotic",
     "steroid", "anesthetic", "sedation", "analgesic", "saline", "dextrose"}

SURGERY_KEYWORDS ==
    {"incision", "excision", "resection", "repair", "removal", "insertion",
     "implant", "graft", "transplant", "amputation", "biopsy", "drainage",
     "reconstruction", "revision", "exploration", "dissection", "suture"}

BODY_PART_KEYWORDS ==
    {"scrotum", "scrotal", "testis", "testicle", "penis", "penile", "prostate",
     "uterus", "uterine", "ovary", "ovarian", "vaginal", "cervix", "cervical",
     "breast", "mammary", "heart", "cardiac", "lung", "pulmonary", "liver",
     "hepatic", "kidney", "renal", "brain", "cerebral", "spine", "spinal",
     "knee", "hip", "shoulder", "elbow", "wrist", "ankle", "foot", "hand"}

STOPWORDS ==
    {"the", "a", "an", "of", "for", "to", "in", "on", "with", "and", "or", "per"}

\* A description is a sequence of blank-separated tokens; <<>> is the empty
\* string (or None).  re.findall(r'[a-z]+', token.lower()): the lowercase
\* alphabetic runs of one token.
TokenWords(tok) ==
    CASE tok = "Injection" -> {"injection"}
      [] tok = "10mg" -> {"mg"}
      [] tok = "10" -> {}
      [] OTHER -> {tok}

_normalize_text(text) == UNION {TokenWords(text[i]) : i \in 1..Len(text)}

\* The second category test with cms_is_drug mistyped as cms_is_surgery.
SurgeryBilledDrugCodedMistyped(bill_words, cms_words) ==
    /\ bill_words \cap SURGERY_KEYWORDS # {}
    /\ cms_words \cap SURGERY_KEYWORDS # {}
    /\ bill_words \cap DRUG_KEYWORDS = {}

\* bill_is_drug and cms_is_surgery and not cms_is_drug
DrugBilledSurgeryCoded(bill_words, cms_words) ==
    /\ bill_words \cap DRUG_KEYWORDS # {}
    /\ cms_words \cap SURGERY_KEYWORDS # {}
    /\ cms_words \cap DRUG_KEYWORDS = {}

\* bill_is_surgery and cms_is_drug and not bill_is_drug
SurgeryBilledDrugCoded(bill_words, cms_words) ==
    /\ bill_words \cap SURGERY_KEYWORDS # {}
    /\ cms_words \cap DRUG_KEYWORDS # {}
    /\ bill_words \cap DRUG_KEYWORDS = {}

\* The overlap divided by the sum of the two sizes instead of the union's.
OverlapScoreOverSum(meaningful_bill, meaningful_cms) ==
    (100 * Cardinality(meaningful_bill \cap meaningful_cms))
        \div (Cardinality(meaningful_bill) + Cardinality(meaningful_cms))

\* int(len(meaningful_common) / union_size * 100); for the set sizes here the
\* float product is never below the exact quotient's integer part.
OverlapScore(meaningful_bill, meaningful_cms) ==
    LET union_size == Cardinality(meaningful_bill \cup meaningful_cms)
    IN  IF union_size > 0
        THEN (100 * Cardinality(meaningful_bill \cap meaningful_cms)) \div union_size
        ELSE 0

\* Only an overlap above one half counts as good.
GoodOverlapAboveHalf(score) == score > 50

\* `if score >= 40`
GoodOverlap(score) == score >= 40

_calculate_description_match(bill_desc, cms_desc) ==
    IF bill_desc = <<>> \/ cms_desc = <<>>
    THEN [score |-> 50, match_type |-> "unknown", reason |-> "Missing description"]
    ELSE
    LET bill_words == _normalize_text(bill_desc)
        cms_words == _normalize_text(cms_desc)
        bill_body_parts == bill_words \cap BODY_PART_KEYWORDS
        cms_body_parts == cms_words \cap BODY_PART_KEYWORDS
        meaningful_common == (bill_words \cap cms_words) \ STOPWORDS
        meaningful_bill == bill_words \ STOPWORDS
        meaningful_cms == cms_words \ STOPWORDS
        score == OverlapScore(meaningful_bill, meaningful_cms)
    IN  IF bill_words = {} \/ cms_words = {}
        THEN [score |-> 50, match_type |-> "unknown",
              reason |-> "Empty description after normalization"]
        ELSE IF DrugBilledSurgeryCoded(bill_words, cms_words)
        THEN [score |-> 10, match_type |-> "category_mismatch",
              reason |-> "Bill describes a drug/medication but CMS code is for surgery"]
        ELSE IF SurgeryBilledDrugCoded(bill_words, cms_words)
        THEN [score |-> 10, match_type |-> "category_mismatch",
              reason |-> "Bill describes surgery but CMS code is for a drug"]
        ELSE IF bill_body_parts # {} /\ cms_body_parts # {}
                /\ bill_body_parts \cap cms_body_parts = {}
        THEN [score |-> 15, match_type |-> "category_mismatch",
              reason |-> "Body part mismatch"]
        ELSE IF meaningful_bill = {} \/ meaningful_cms = {}
        THEN [score |-> 50, match_type |-> "unknown",
              reason |-> "No meaningful words to compare"]
        ELSE IF Cardinality(meaningful_common) >= 1 \/ score >= 15
        THEN IF GoodOverlap(score)
             THEN [score |-> score, match_type |-> "good", reason |-> "Good word overlap"]
             ELSE [score |-> score, match_type |-> "partial", reason |-> "Partial match"]
        ELSE [score |-> score, match_type |-> "mismatch",
              reason |-> "No common terms found between descriptions"]

\* The tokens descriptions are made of: a capitalised and a digit-prefixed
\* drug word, a drug word that is also a stopword, a surgical word, two body
\* parts, a stopword, a neutral word and a number.
MatchTokens ==
    <<"Injection", "10mg", "per", "incision", "knee", "hip", "the", "visit", "10">>
MaxDescWords == 2

TokenIndex(tok) == CHOOSE i \in 1..Len(MatchTokens) : MatchTokens[i] = tok

\* Descriptions of at most n tokens, one per choice of tokens (the validator
\* reads a description as a set of words, so token order is immaterial).
RECURSIVE DescriptionsUpTo(_)
DescriptionsUpTo(n) ==
    IF n = 0 THEN {<<>>}
    ELSE LET shorter == DescriptionsUpTo(n - 1) IN
         shorter \cup
         {Append(d, MatchTokens[j]) :
            <<d, j>> \in {<<e, k>> \in shorter \X (1..Len(MatchTokens)) :
                             e = <<>> \/ TokenIndex(e[Len(e)]) < k}}

Descriptions == DescriptionsUpTo(MaxDescWords)

InitMatch ==
    /\ IdleAssess /\ IdleCache /\ IdleExtract /\ IdleCode /\ IdleIO /\ IdleCompare /\ IdleRace
    /\ match_out = NONE
    /\ \E b \in Descriptions, c \in Descriptions :
          match_in = [bill_desc |-> b, cms_desc |-> c]

\* get_combined_pricing validating a bill description against the dataset's.
Match ==
    /\ match_in # <<>> /\ match_out = NONE
    /\ match_out' =
          Some(_calculate_description_match(match_in.bill_desc, match_in.cms_desc))
    /\ UNCHANGED <<match_in, assessVars, cacheVars, extractVars, codeVars, ioVars, compareVars, raceVars>>

NextMatch == Match

SpecMatch == InitMatch /\ [][NextMatch]_vars

Matched == match_out # NONE
MatchResult == Val(match_out)
BillWords == _normalize_text(match_in.bill_desc)
ReferenceWords == _normalize_text(match_in.cms_desc)

\* C5 as stated: any non-empty description matched against itself is a good
\* match with score 100.
C5_ReflexiveForNonEmpty ==
    (Matched /\ match_in.bill_desc = match_in.cms_desc /\ match_in.bill_desc # <<>>) =>
        (MatchResult.match_type = "good" /\ MatchResult.score = 100)

\* C5 as amended: a description with at least one alphabetic word that is not
\* a stopword, matched against itself, is a good match with score 100; a
\* non-empty description with no such word yields unknown with score 50.
C5_ReflexiveForMeaningful ==
    (Matched /\ match_in.bill_desc = match_in.cms_desc /\ match_in.bill_desc # <<>>) =>
        IF BillWords \ STOPWORDS # {}
        THEN MatchResult.match_type = "good" /\ MatchResult.score = 100
        ELSE MatchResult.match_type = "unknown" /\ MatchResult.score = 50

\* C5 witness: a two-token description with a meaningful word was matched
\* against itself and found good.
C5_Witness ==
    /\ Matched /\ match_in.bill_desc = match_in.cms_desc
    /\ Len(match_in.bill_desc) = 2
    /\ BillWords \ STOPWORDS # {}
    /\ MatchResult.match_type = "good"

\* C6: a bill description whose words are all drug vocabulary against a
\* reference description whose words are all surgical vocabulary (both with
\* at least one word) is a category_mismatch with score 10; likewise with the
\* two roles swapped.
C6_DrugAgainstSurgery ==
    Matched =>
        LET pureDrug(w) == w # {} /\ w \subseteq DRUG_KEYWORDS
            pureSurgery(w) == w # {} /\ w \subseteq SURGERY_KEYWORDS
        IN  ((pureDrug(BillWords) /\ pureSurgery(ReferenceWords))
                \/ (pureSurgery(BillWords) /\ pureDrug(ReferenceWords))) =>
            (MatchResult.match_type = "category_mismatch" /\ MatchResult.score = 10)

\* C6 witness: a surgical bill description was matched against a two-word
\* drug description (the swapped roles) and reported as a category mismatch.
C6_Witness ==
    /\ Matched
    /\ BillWords = {"incision"}
    /\ ReferenceWords = {"injection", "mg"}
    /\ MatchResult.match_type = "category_mismatch"

\* The words the two descriptions share, stopwords apart, and whether the
\* validator came to compare the overlap.
MeaningfulCommon == (BillWords \cap ReferenceWords) \ STOPWORDS
ByOverlap == MatchResult.match_type \in {"good", "partial", "mismatch"}
Related == MeaningfulCommon # {} \/ MatchResult.score >= 15

\* C27: where the validator decides by word overlap, the result is good
\* exactly when a meaningful word is shared or the score is at least 15, and
\* the score is at least 40; partial under the same condition with a score
\* below 40; mismatch otherwise.  So every mismatch has score 0, every good
\* result a score in 40..100, and every score returned lies in 0..100.
C27_OverlapClasses ==
    Matched =>
        /\ MatchResult.score \in 0..100
        /\ ByOverlap =>
              /\ MatchResult.match_type = "good"
                    <=> (Related /\ MatchResult.score >= 40)
              /\ MatchResult.match_type = "partial"
                    <=> (Related /\ MatchResult.score < 40)
              /\ MatchResult.match_type = "mismatch" <=> ~Related
        /\ MatchResult.match_type = "mismatch" => MatchResult.score = 0
        /\ MatchResult.match_type = "good" => MatchResult.score \in 40..100

\* C27 witness: two descriptions that share one of their three meaningful
\* words were found a partial match.
C27_Witness ==
    /\ Matched
    /\ Cardinality(MeaningfulCommon) = 1
    /\ Cardinality((BillWords \cup ReferenceWords) \ STOPWORDS) = 3
    /\ MatchResult.match_type = "partial"
    /\ MatchResult.score = 33

-----------------------------------------------------------------------------
(* Reference Price Resolver and its cache: cms_data_service.py.  Cache     *)
(* I/O is taken to succeed here (an IOError makes a read a miss and a      *)
(* write a no-op), and every handler runs to completion before the next.   *)

CACHE_EXPIRY_HOURS == 24

\* CODE_CROSSWALK.get(code)
CODE_CROSSWALK(code) ==
    CASE code = "J2003" -> Some("J2001")
      [] code = "J2004" -> Some("J2001")
      [] OTHER -> NONE

PhysicianCode == "99213"
DrugCode == "J2003"
Codes == {PhysicianCode, DrugCode}
CacheOps == {"pfs", "drug", "combined_v3", "combined_v3_validated"}

\* md5 of "op:code"; no operation name holds a colon, so distinct pairs give
\* distinct key strings.
_get_cache_key(op, code) == <<op, code>>
CacheKeys == {_get_cache_key(op, c) : op \in CacheOps, c \in Codes}

\* The comparison with the expiry time turned round.
CacheValidReversed(store, key, t) ==
    /\ store[key] # NONE
    /\ Val(store[key]).mtime < t - CACHE_EXPIRY_HOURS

\* cache_path.exists() and mtime > now - 24 h
\* An entry written exactly CACHE_EXPIRY_HOURS ago still counts.
CacheValidInclusive(store, key, t) ==
    store[key] # NONE /\ Val(store[key]).mtime >= t - CACHE_EXPIRY_HOURS

_is_cache_valid(store, key, t) ==
    /\ store[key] # NONE
    /\ Val(store[key]).mtime > t - CACHE_EXPIRY_HOURS

\* What a handler has done so far: the cache files, the requests sent to the
\* remote dataset, and the cache keys it has read and written.
StartEnv(store) ==
    [store |-> store, requests |-> 0, queried |-> <<>>, reads |-> {}, writes |-> {}]

_read_cache(env, key, t) ==
    [out |-> IF _is_cache_valid(env.store, key, t)
             THEN Some(Val(env.store[key]).data) ELSE NONE,
     env |-> [env EXCEPT !.reads = @ \cup {key}]]

_write_cache(env, key, data, t) ==
    [env EXCEPT !.store[key] = Some([data |-> data, mtime |-> t]),
                !.writes = @ \cup {key}]

\* if x and x > 0, for _safe_float(x) of a field that may be missing
Positive(o) == o # NONE /\ Val(o) > 0

RECURSIVE SumSeq(_)
SumSeq(q) == IF q = <<>> THEN 0 ELSE q[1] + SumSeq(Tail(q))

RECURSIVE InsertAscending(_, _)
InsertAscending(q, x) ==
    IF q = <<>> THEN <<x>>
    ELSE IF x < q[1] THEN <<x>> \o q
    ELSE <<q[1]>> \o InsertAscending(Tail(q), x)

RECURSIVE SortAscending(_)
SortAscending(q) ==
    IF q = <<>> THEN <<>> ELSE InsertAscending(SortAscending(Tail(q)), q[1])

RECURSIVE PositiveValues(_, _)
PositiveValues(records, field) ==
    IF records = <<>> THEN <<>>
    ELSE (IF Positive(records[1][field]) THEN <<Val(records[1][field])>> ELSE <<>>)
            \o PositiveValues(Tail(records), field)

\* {min, max, median, average, count} of a sorted non-empty list; the
\* average is cut to whole mills.
Statistics(sorted) ==
    [min |-> sorted[1], max |-> sorted[Len(sorted)],
     median |-> sorted[(Len(sorted) \div 2) + 1],
     average |-> SumSeq(sorted) \div Len(sorted),
     count |-> Len(sorted)]

\* The description of the first record that has one.
RECURSIVE FirstDescription(_)
FirstDescription(records) ==
    IF records = <<>> THEN <<>>
    ELSE IF records[1].HCPCS_Desc # <<>> THEN records[1].HCPCS_Desc
    ELSE FirstDescription(Tail(records))

_aggregate_physician_data(hcpcs_code, records, t) ==
    LET payments == SortAscending(PositiveValues(records, "Avg_Mdcr_Pymt_Amt"))
        charges_sorted == SortAscending(PositiveValues(records, "Avg_Sbmtd_Chrg"))
        description == FirstDescription(records)
    IN  IF records = <<>> \/ payments = <<>> THEN NONE
        ELSE Some([hcpcs_code |-> hcpcs_code,
                   description |-> IF description # <<>> THEN description
                                   ELSE <<"Service", hcpcs_code>>,
                   medicare_payment |-> Statistics(payments),
                   submitted_charges |-> IF charges_sorted # <<>>
                                         THEN Some(Statistics(charges_sorted))
                                         ELSE NONE,
                   data_source |-> "CMS Medicare Physician & Other Practitioners",
                   cached_at |-> t])

\* response: what _fetch_from_cms returns for the request, NONE when the
\* request or the parse of its answer failed.
get_physician_fee_by_hcpcs(env, hcpcs_code, t, response) ==
    LET cache_key == _get_cache_key("pfs", hcpcs_code)
        cached == _read_cache(env, cache_key, t)
        asked == [cached.env EXCEPT !.requests = @ + 1,
                                    !.queried = Append(@, hcpcs_code)]
        result == _aggregate_physician_data(hcpcs_code, Val(response), t)
    IN  IF cached.out # NONE THEN [out |-> Val(cached.out), env |-> cached.env]
        ELSE IF response = NONE \/ Val(response) = <<>>
        THEN [out |-> NONE, env |-> asked]
        ELSE IF result # NONE
        THEN [out |-> result, env |-> _write_cache(asked, cache_key, result, t)]
        ELSE [out |-> NONE, env |-> asked]

\* The first record is kept whether or not it carries a price.
ProcessDrugDataUnchecked(hcpcs_code, records, t) ==
    IF records = <<>> THEN NONE
    ELSE Some([hcpcs_code |-> hcpcs_code,
               original_code |-> records[1].HCPCS_Cd,
               description |-> records[1].HCPCS_Desc,
               asp_price |-> records[1].Avg_DY23_ASP_Price,
               avg_spending_per_unit |-> records[1].Avg_Spndng_Per_Dsg_Unt_2023,
               data_source |-> "CMS Medicare Part B Drug Spending",
               cached_at |-> t])

\* Only the fields the resolver and the assessment read are kept; brand and
\* generic name and the claim totals are copied through by the code.
_process_drug_data(hcpcs_code, records, t) ==
    IF records = <<>> THEN NONE
    ELSE LET record == records[1] IN
         IF ~Truthy(record.Avg_DY23_ASP_Price)
            /\ ~Truthy(record.Avg_Spndng_Per_Dsg_Unt_2023)
         THEN NONE
         ELSE Some([hcpcs_code |-> hcpcs_code,
                    original_code |-> record.HCPCS_Cd,
                    description |-> record.HCPCS_Desc,
                    asp_price |-> record.Avg_DY23_ASP_Price,
                    avg_spending_per_unit |-> record.Avg_Spndng_Per_Dsg_Unt_2023,
                    data_source |-> "CMS Medicare Part B Drug Spending",
                    cached_at |-> t])

NoRows(response) == response = NONE \/ Val(response) = <<>>

\* The lookup with the retry under the predecessor left out.
GetDrugPricingDirectOnly(env, hcpcs_code, t, response, retry) ==
    LET cache_key == _get_cache_key("drug", hcpcs_code)
        cached == _read_cache(env, cache_key, t)
        asked == [cached.env EXCEPT !.requests = @ + 1,
                                    !.queried = Append(@, hcpcs_code)]
        result == _process_drug_data(hcpcs_code, Val(response), t)
    IN  IF cached.out # NONE THEN [out |-> Val(cached.out), env |-> cached.env]
        ELSE IF NoRows(response) THEN [out |-> NONE, env |-> asked]
        ELSE IF result # NONE
        THEN [out |-> result, env |-> _write_cache(asked, cache_key, result, t)]
        ELSE [out |-> NONE, env |-> asked]

\* response: the answer to the lookup of the code itself; retry: the answer
\* to the lookup of its crosswalk predecessor, sent only after a miss.
get_drug_pricing(env, hcpcs_code, t, response, retry) ==
    LET cache_key == _get_cache_key("drug", hcpcs_code)
        cached == _read_cache(env, cache_key, t)
        crosswalk == NoRows(response) /\ CODE_CROSSWALK(hcpcs_code) # NONE
        data == IF crosswalk THEN retry ELSE response
        asked == [cached.env EXCEPT
                     !.requests = @ + (IF crosswalk THEN 2 ELSE 1),
                     !.queried = @ \o (IF crosswalk
                                       THEN <<hcpcs_code, Val(CODE_CROSSWALK(hcpcs_code))>>
                                       ELSE <<hcpcs_code>>)]
        result == _process_drug_data(hcpcs_code, Val(data), t)
    IN  IF cached.out # NONE THEN [out |-> Val(cached.out), env |-> cached.env]
        ELSE IF NoRows(data) THEN [out |-> NONE, env |-> asked]
        ELSE IF result # NONE
        THEN [out |-> result, env |-> _write_cache(asked, cache_key, result, t)]
        ELSE [out |-> NONE, env |-> asked]

\* hcpcs_code[0].upper(), for the codes that occur here
FirstCharUpper(hcpcs_code) ==
    CASE hcpcs_code \in {"J2003", "J2004", "J2001"} -> "J"
      [] hcpcs_code = "99213" -> "9"
      [] hcpcs_code = "0450" -> "0"

_is_drug_code(hcpcs_code) ==
    hcpcs_code # "" /\ FirstCharUpper(hcpcs_code) \in {"J", "Q"}

\* The combined result is cached whatever the caller passed as description.
UnvalidatedAlways(bill_description) == TRUE

\* not bill_description
Unvalidated(bill_description) == bill_description = <<>>

\* Every verdict of the validator counts as trustworthy.
ReliableMatchTypesAll ==
    {"good", "partial", "unknown", "mismatch", "category_mismatch"}

\* The verdicts under which priced data stays reliable.
ReliableMatchTypes == {"good", "partial", "unknown"}

get_combined_pricing(store, hcpcs_code, bill_description, t, response, retry) ==
    LET cache_suffix == IF bill_description # <<>> THEN "_validated" ELSE ""
        cache_key == _get_cache_key(
            IF cache_suffix = "" THEN "combined_v3" ELSE "combined_v3_validated",
            hcpcs_code)
        begun == StartEnv(store)
        cached == IF Unvalidated(bill_description)
                  THEN _read_cache(begun, cache_key, t)
                  ELSE [out |-> NONE, env |-> begun]
        drug == IF _is_drug_code(hcpcs_code)
                THEN get_drug_pricing(cached.env, hcpcs_code, t, response, retry)
                ELSE [out |-> NONE, env |-> cached.env]
        physician == IF _is_drug_code(hcpcs_code)
                     THEN [out |-> NONE, env |-> cached.env]
                     ELSE get_physician_fee_by_hcpcs(cached.env, hcpcs_code, t, response)
        looked == IF _is_drug_code(hcpcs_code) THEN drug.env ELSE physician.env
        physician_data == physician.out
        drug_data == drug.out
        cms_description ==
            IF physician_data # NONE THEN Val(physician_data).description
            ELSE IF drug_data # NONE THEN Val(drug_data).description
            ELSE <<>>
        description_match ==
            IF bill_description # <<>> /\ cms_description # <<>>
            THEN Some(_calculate_description_match(bill_description, cms_description))
            ELSE NONE
        has_data == physician_data # NONE \/ drug_data # NONE
        has_reliable_data ==
            /\ has_data
            /\ \/ description_match = NONE
               \/ Val(description_match).match_type \in ReliableMatchTypes
        result == [hcpcs_code |-> hcpcs_code,
                   physician_fee |-> physician_data,
                   facility_fee |-> NONE,
                   drug_pricing |-> drug_data,
                   has_data |-> has_data,
                   has_reliable_data |-> has_reliable_data,
                   description_match |-> description_match,
                   cached_at |-> t]
    IN  IF cached.out # NONE THEN [out |-> Val(cached.out), env |-> cached.env]
        ELSE IF has_data /\ Unvalidated(bill_description)
        THEN [out |-> result, env |-> _write_cache(looked, cache_key, result, t)]
        ELSE [out |-> result, env |-> looked]

\* What the remote datasets may answer: a failed request, no rows, rows
\* without a usable figure, or rows with figures.
PhysicianRow(pay, charge, desc) ==
    [Avg_Mdcr_Pymt_Amt |-> pay, Avg_Sbmtd_Chrg |-> charge, HCPCS_Desc |-> desc]
DrugRow(cd, asp, spending) ==
    [HCPCS_Cd |-> cd, HCPCS_Desc |-> <<"Injection", "10mg">>,
     Avg_DY23_ASP_Price |-> asp, Avg_Spndng_Per_Dsg_Unt_2023 |-> spending]

PhysicianResponses ==
    {NONE, Some(<<>>),
     Some(<<PhysicianRow(Some(0), NONE, <<"visit">>)>>),
     Some(<<PhysicianRow(Some(100000), Some(250000), <<"visit">>),
            PhysicianRow(Some(50000), NONE, <<"visit">>)>>),
     Some(<<PhysicianRow(Some(80000), Some(0), <<>>)>>)}

DrugResponses(queried) ==
    {NONE, Some(<<>>),
     Some(<<DrugRow(queried, NONE, Some(0))>>),
     Some(<<DrugRow(queried, Some(33333), NONE)>>)}

Responses(code) ==
    IF _is_drug_code(code) THEN DrugResponses(code) ELSE PhysicianResponses
Retries(code) ==
    IF CODE_CROSSWALK(code) # NONE
    THEN DrugResponses(Val(CODE_CROSSWALK(code))) ELSE {NONE}

BillDescriptions == {<<>>, <<"visit">>, <<"incision">>}

\* The clock moves in steps of half the expiry time, MaxTicks times.
TickHours == CACHE_EXPIRY_HOURS \div 2
MaxTicks == 2

Init ==
    /\ IdleAssess /\ IdleMatch /\ IdleExtract /\ IdleCode /\ IdleIO /\ IdleCompare /\ IdleRace
    /\ now = 0
    /\ cache = [k \in CacheKeys |-> NONE]
    /\ call = NONE
    /\ prev_call = NONE

Tick ==
    /\ now + TickHours <= MaxTicks * TickHours
    /\ now' = now + TickHours
    /\ call' = NONE
    /\ UNCHANGED <<cache, prev_call, assessVars, matchVars, extractVars, codeVars, ioVars, compareVars, raceVars>>

\* The call sends no request, so no answer of the remote dataset is drawn.
AnsweredFromCache(code, desc) ==
    \/ Unvalidated(desc) /\ _is_cache_valid(cache, _get_cache_key("combined_v3", code), now)
    \/ _is_cache_valid(cache,
           _get_cache_key(IF _is_drug_code(code) THEN "drug" ELSE "pfs", code), now)

\* When the combined entry a call without description returned or wrote was
\* written: now if the call wrote it, the file's mtime if the call read it.
StoredAt(code, writes) ==
    LET key == _get_cache_key("combined_v3", code) IN
    IF key \in writes THEN Some(now)
    ELSE IF _is_cache_valid(cache, key, now) THEN Some(Val(cache[key]).mtime)
    ELSE NONE

\* One call of get_combined_pricing, from entry to return.  The record of
\* the call is dropped by the next step that is not a call.
GetCombinedPricing(code, desc) ==
    \E response \in (IF AnsweredFromCache(code, desc) THEN {NONE} ELSE Responses(code)) :
      \E retry \in (IF NoRows(response) /\ ~AnsweredFromCache(code, desc)
                    THEN Retries(code) ELSE {NONE}) :
      \E done \in {get_combined_pricing(cache, code, desc, now, response, retry)} :
            /\ cache' = done.env.store
            /\ call' = Some([hcpcs_code |-> code, bill_description |-> desc,
                             at |-> now, result |-> done.out,
                             requests |-> done.env.requests,
                             reads |-> done.env.reads,
                             writes |-> done.env.writes,
                             prev |-> prev_call])
            /\ prev_call' = IF desc = <<>>
                            THEN Some([hcpcs_code |-> code, at |-> now,
                                       result |-> done.out,
                                       stored_at |-> StoredAt(code, done.env.writes),
                                       cleared |-> FALSE])
                            ELSE prev_call
            /\ UNCHANGED <<now, assessVars, matchVars, extractVars, codeVars, ioVars, compareVars, raceVars>>

\* clear_cache: the directory is removed and made anew.
ClearCache ==
    /\ cache' = [k \in CacheKeys |-> NONE]
    /\ prev_call' = IF prev_call = NONE THEN NONE
                    ELSE Some([Val(prev_call) EXCEPT !.cleared = TRUE])
    /\ call' = NONE
    /\ UNCHANGED <<now, assessVars, matchVars, extractVars, codeVars, ioVars, compareVars, raceVars>>

Next ==
    \/ Tick
    \/ \E code \in Codes, desc \in BillDescriptions : GetCombinedPricing(code, desc)
    \/ ClearCache

Spec == Init /\ [][Next]_vars

CombinedKeys ==
    {_get_cache_key(op, c) : op \in {"combined_v3", "combined_v3_validated"}, c \in Codes}

\* The call that just returned was made without a bill description and is
\* the second such call for its code.
SecondUnvalidatedCall ==
    /\ call # NONE
    /\ Val(call).bill_description = <<>>
    /\ Val(call).prev # NONE
    /\ Val(Val(call).prev).hcpcs_code = Val(call).hcpcs_code
    /\ ~Val(Val(call).prev).cleared
FirstCall == Val(Val(call).prev)

\* C7 as stated: whatever the first remote lookup gave, a second call without
\* description within 24 hours of the first (the cache not cleared between
\* them) returns the identical payload and sends no request.
C7_SecondCallServedFromCache ==
    (SecondUnvalidatedCall /\ Val(call).at - FirstCall.at < CACHE_EXPIRY_HOURS) =>
        (Val(call).result = FirstCall.result /\ Val(call).requests = 0)

\* C7 as amended: when the first call returned pricing data, a second call
\* made less than 24 hours after that payload was written to the cache (the
\* cache not cleared between them) returns the identical payload and sends
\* no request.
C7_SecondCallWithinEntryLifetime ==
    (SecondUnvalidatedCall /\ FirstCall.result.has_data
        /\ FirstCall.stored_at # NONE
        /\ Val(call).at - Val(FirstCall.stored_at) < CACHE_EXPIRY_HOURS) =>
        (Val(call).result = FirstCall.result /\ Val(call).requests = 0)

\* C7 witness: a second call, 12 hours after the first one stored its data,
\* was answered without a request.
C7_Witness ==
    /\ SecondUnvalidatedCall
    /\ FirstCall.result.has_data
    /\ FirstCall.stored_at = Some(0)
    /\ Val(call).at = TickHours
    /\ Val(call).requests = 0
    /\ Val(call).result.has_data

\* C8: a call with a non-empty bill description reads no combined-level
\* cache key and writes none, and leaves every combined-level entry as it was.
C8_ValidatedCallLeavesCombinedEntries ==
    [][(call' # NONE /\ Val(call').bill_description # <<>>) =>
            /\ Val(call').reads \cap CombinedKeys = {}
            /\ Val(call').writes \cap CombinedKeys = {}
            /\ \A k \in CombinedKeys : cache'[k] = cache[k]]_vars

\* C8 witness: a call with a description fetched and cached per-source data
\* for a code whose unvalidated combined entry was in the cache.
C8_Witness ==
    /\ call # NONE
    /\ Val(call).bill_description # <<>>
    /\ Val(call).requests > 0
    /\ Val(call).writes # {}
    /\ cache[_get_cache_key("combined_v3", Val(call).hcpcs_code)] # NONE

\* C11: in every result a lookup returns, has_reliable_data is true exactly
\* when has_data is true and the description check either did not run or
\* gave one of the verdicts good, partial, unknown.
C11_ReliableIffDataAndAcceptableMatch ==
    call # NONE =>
        LET r == Val(call).result
        IN  r.has_reliable_data <=>
                /\ r.has_data
                /\ \/ r.description_match = NONE
                   \/ Val(r.description_match).match_type
                          \in {"good", "partial", "unknown"}

\* C11 witness: a lookup returned pricing data whose description the
\* validator rejected, and marked it unreliable.
C11_Witness ==
    /\ call # NONE
    /\ Val(call).result.has_data
    /\ Val(call).result.description_match # NONE
    /\ Val(Val(call).result.description_match).match_type
           \in {"mismatch", "category_mismatch"}
    /\ ~Val(call).result.has_reliable_data

\* The age in hours of the entry under a key, which must be present.
EntryAge(key) == now - Val(cache[key]).mtime

\* What a _read_cache of the key returns in the current state.
ReadNow(key) == _read_cache(StartEnv(cache), key, now).out

\* C12: at any time, a read of a key whose entry was written 24 hours or
\* more ago returns no payload, and a read that returns a payload returns
\* the payload of an entry written less than 24 hours ago.
C12_ReadOnlyWithinExpiry ==
    \A key \in CacheKeys :
        /\ (cache[key] # NONE /\ EntryAge(key) >= 24) => ReadNow(key) = NONE
        /\ ReadNow(key) # NONE =>
               /\ cache[key] # NONE
               /\ EntryAge(key) < 24
               /\ ReadNow(key) = Some(Val(cache[key]).data)

\* C12 witness: a lookup read a key whose entry was exactly 24 hours old,
\* treated it as absent and queried the remote dataset, while an entry 12
\* hours old under another key is still served.
C12_Witness ==
    /\ call # NONE
    /\ Val(call).requests > 0
    /\ \E key \in Val(call).reads :
           /\ key \notin Val(call).writes
           /\ cache[key] # NONE
           /\ EntryAge(key) = 24
    /\ \E other \in CacheKeys :
           /\ cache[other] # NONE
           /\ EntryAge(other) = 12
           /\ ReadNow(other) # NONE

\* The payload under a key carries a price: a per-source payload a payment
\* statistic or a drug price, a combined payload one of the two.
PricedPhysician(data) ==
    data.medicare_payment.count >= 1 /\ data.medicare_payment.average > 0
PricedDrug(data) ==
    Truthy(data.asp_price) \/ Truthy(data.avg_spending_per_unit)
PricedPayload(key, data) ==
    CASE key[1] = "pfs" -> data # NONE /\ PricedPhysician(Val(data))
      [] key[1] = "drug" -> data # NONE /\ PricedDrug(Val(data))
      [] OTHER -> /\ data.has_data
                  /\ \/ /\ data.physician_fee # NONE
                        /\ PricedPhysician(Val(data.physician_fee))
                     \/ /\ data.drug_pricing # NONE
                        /\ PricedDrug(Val(data.drug_pricing))

EveryEntryPriced ==
    \A key \in CacheKeys :
        cache[key] # NONE => PricedPayload(key, Val(cache[key]).data)

\* The lookup queried the remote dataset and came back without a price.
FailedLookup(c) == c.requests > 0 /\ ~c.result.has_data

SourceKey(code) ==
    _get_cache_key(IF _is_drug_code(code) THEN "drug" ELSE "pfs", code)

\* With these cache files at this time a lookup is answered without a
\* request: from the combined entry when no description is passed, or from
\* the per-source entry.
WouldHit(store, t, code, desc) ==
    \/ desc = <<>> /\ _is_cache_valid(store, _get_cache_key("combined_v3", code), t)
    \/ _is_cache_valid(store, SourceKey(code), t)

-----------------------------------------------------------------------------
(* The cache files under concurrent callers: services/cms_data_service.py  *)
(* The route handlers are coroutines that call the resolver without       *)
(* awaiting, so calls interleave only between callers in different threads *)
(* or processes (several server workers share the one CACHE_DIR).  The     *)
(* resolver takes no lock and renames no file, so their file system calls  *)
(* interleave.  One cache file is followed; fs.file is NONE when it does   *)
(* not exist, else [content, fresh] with content one of "old" (the payload *)
(* written before), "empty" (just truncated), "partial" (part of the new   *)
(* text flushed), "new" (the new payload, file closed), and fresh whether  *)
(* its mtime is younger than CACHE_EXPIRY_HOURS.                           *)

File(content, fresh) == Some([content |-> content, fresh |-> fresh])

\* The entry before the callers start: none, one written within the expiry
\* time, or an expired one.
OldEntries == {"absent", "fresh", "expired"}

Starting(step) == [pc |-> step, out |-> "running"]
Finished(out) == [pc |-> "done", out |-> out]

\* json.load on what open() gave: a complete payload parses, a truncated
\* text raises JSONDecodeError, caught in _read_cache: None is returned.
Load(content) ==
    CASE content \in {"old", "new"} -> Finished(content)
      [] OTHER -> Finished("miss")

\* What the callers of this section leave alone.
notIO == <<assessVars, matchVars, cacheVars, extractVars, codeVars, compareVars, raceVars>>

InitIO ==
    /\ IdleAssess /\ IdleMatch /\ IdleCache /\ IdleExtract /\ IdleCode /\ IdleCompare /\ IdleRace
    /\ \E old \in OldEntries :
          fs = [dir |-> TRUE,
                file |-> CASE old = "absent" -> NONE
                           [] old = "fresh" -> File("old", TRUE)
                           [] old = "expired" -> File("old", FALSE),
                old |-> old]
    /\ reader = Starting("exists")
    /\ writer = Starting("open")
    /\ clearer = Starting("exists")
    /\ stats = Starting("exists")

\* _is_cache_valid, `if not cache_path.exists(): return False`
ReaderExists ==
    /\ reader.pc = "exists"
    /\ reader' = IF fs.file = NONE THEN Finished("miss") ELSE Starting("stat")
    /\ UNCHANGED <<fs, writer, clearer, stats, notIO>>

\* _is_cache_valid, `cache_path.stat().st_mtime`: outside any try, so the
\* FileNotFoundError of a file removed meanwhile leaves _read_cache.
ReaderStat ==
    /\ reader.pc = "stat"
    /\ reader' = IF fs.file = NONE THEN Finished("raised")
                 ELSE IF Val(fs.file).fresh THEN Starting("open")
                 ELSE Finished("miss")
    /\ UNCHANGED <<fs, writer, clearer, stats, notIO>>

\* _read_cache, open() and json.load() inside the try: a missing file is an
\* IOError, caught.
ReaderOpen ==
    /\ reader.pc = "open"
    /\ reader' = IF fs.file = NONE THEN Finished("miss")
                 ELSE Load(Val(fs.file).content)
    /\ UNCHANGED <<fs, writer, clearer, stats, notIO>>

\* _write_cache, open(cache_path, "w"): truncates or creates the file; a
\* missing directory is an IOError, caught.
WriterOpen ==
    /\ writer.pc = "open"
    /\ IF fs.dir
       THEN /\ fs' = [fs EXCEPT !.file = File("empty", TRUE)]
            /\ writer' = Starting("dump")
       ELSE /\ fs' = fs
            /\ writer' = Finished("no-op")
    /\ UNCHANGED <<reader, clearer, stats, notIO>>

\* json.dump: the buffer may be flushed before the text is complete.  A file
\* unlinked meanwhile takes the text with it.
WriterFlush ==
    /\ writer.pc = "dump"
    /\ fs' = IF fs.file = NONE THEN fs
             ELSE [fs EXCEPT !.file = File("partial", TRUE)]
    /\ writer' = Starting("close")
    /\ UNCHANGED <<reader, clearer, stats, notIO>>

\* The end of the with block: the rest is flushed and the file closed.
WriterClose ==
    /\ writer.pc \in {"dump", "close"}
    /\ fs' = IF fs.file = NONE THEN fs
             ELSE [fs EXCEPT !.file = File("new", TRUE)]
    /\ writer' = Finished("written")
    /\ UNCHANGED <<reader, clearer, stats, notIO>>

\* clear_cache, `if CACHE_DIR.exists():`
ClearExists ==
    /\ clearer.pc = "exists"
    /\ clearer' = IF fs.dir THEN Starting("unlink") ELSE Finished("returned")
    /\ UNCHANGED <<fs, reader, writer, stats, notIO>>

\* shutil.rmtree, the entries of the directory are unlinked
ClearUnlink ==
    /\ clearer.pc = "unlink"
    /\ fs' = [fs EXCEPT !.file = NONE]
    /\ clearer' = Starting("rmdir")
    /\ UNCHANGED <<reader, writer, stats, notIO>>

\* shutil.rmtree, the directory is removed: an OSError if a file was
\* created in it meanwhile.
ClearRmdir ==
    /\ clearer.pc = "rmdir"
    /\ IF fs.file = NONE
       THEN /\ fs' = [fs EXCEPT !.dir = FALSE]
            /\ clearer' = Starting("mkdir")
       ELSE /\ fs' = fs
            /\ clearer' = Finished("raised")
    /\ UNCHANGED <<reader, writer, stats, notIO>>

\* _ensure_cache_dir
ClearMkdir ==
    /\ clearer.pc = "mkdir"
    /\ fs' = [fs EXCEPT !.dir = TRUE]
    /\ clearer' = Finished("returned")
    /\ UNCHANGED <<reader, writer, stats, notIO>>

\* get_cache_stats, `if not CACHE_DIR.exists():` and the glob
StatsGlob ==
    /\ stats.pc = "exists"
    /\ stats' = IF ~fs.dir \/ fs.file = NONE THEN Finished("returned")
                ELSE Starting("size")
    /\ UNCHANGED <<fs, reader, writer, clearer, notIO>>

\* `f.stat().st_size for f in files`, in no try
StatsSize ==
    /\ stats.pc = "size"
    /\ stats' = IF fs.file = NONE THEN Finished("raised") ELSE Starting("valid")
    /\ UNCHANGED <<fs, reader, writer, clearer, notIO>>

\* `self._is_cache_valid(f)`: exists(), then stat()
StatsValidExists ==
    /\ stats.pc = "valid"
    /\ stats' = IF fs.file = NONE THEN Finished("returned") ELSE Starting("stat")
    /\ UNCHANGED <<fs, reader, writer, clearer, notIO>>

StatsValidStat ==
    /\ stats.pc = "stat"
    /\ stats' = IF fs.file = NONE THEN Finished("raised") ELSE Finished("returned")
    /\ UNCHANGED <<fs, reader, writer, clearer, notIO>>

NextIO ==
    \/ ReaderExists \/ ReaderStat \/ ReaderOpen
    \/ WriterOpen \/ WriterFlush \/ WriterClose
    \/ ClearExists \/ ClearUnlink \/ ClearRmdir \/ ClearMkdir
    \/ StatsGlob \/ StatsSize \/ StatsValidExists \/ StatsValidStat

SpecIO == InitIO /\ [][NextIO]_vars

\* C14: with a payload in the cache that has not expired, and nobody
\* clearing the cache, a reader of the key that another caller is writing
\* gets the old payload or the new one: no partial value, no miss.
C14_ReaderGetsOldOrNew ==
    (fs.old = "fresh" /\ clearer.pc = "exists" /\ reader.pc = "done") =>
        reader.out \in {"old", "new"}

\* C16: neither a lookup (its cache read, its cache write) nor a cache-stats
\* call ends with an exception, whatever a concurrent clear-all has removed.
C16_CacheFaultsNeverRaise ==
    /\ reader.out # "raised"
    /\ writer.out # "raised"
    /\ stats.out # "raised"

-----------------------------------------------------------------------------
(* Two callers of get_combined_pricing for one code, without description,  *)
(* in two threads or server processes on one CACHE_DIR.  The remote        *)
(* dataset gives both the same answer.  A caller that finds no valid entry *)
(* waits for the remote dataset, and the other caller and the clock can    *)
(* move meanwhile; the result is built, stamped and written on return.     *)

Callers == {1, 2}

InitRace ==
    /\ IdleAssess /\ IdleMatch /\ IdleExtract /\ IdleCode /\ IdleIO /\ IdleCompare
    /\ now = 0
    /\ cache = [k \in CacheKeys |-> NONE]
    /\ call = NONE
    /\ prev_call = NONE
    /\ \E code \in Codes :
         \E response \in Responses(code) :
           \E retry \in (IF NoRows(response) THEN Retries(code) ELSE {NONE}) :
              race = [hcpcs_code |-> code, response |-> response, retry |-> retry,
                      pc |-> [w \in Callers |-> "start"],
                      written |-> [w \in Callers |-> NONE]]

\* The payloads a call wrote, by cache key.
Payloads(env) == [k \in env.writes |-> Val(env.store[k]).data]

\* The call as it runs against the cache at hand.
RaceCall(store) ==
    get_combined_pricing(store, race.hcpcs_code, <<>>, now, race.response, race.retry)

\* lines 503-524 with a valid entry: the call is answered from the cache,
\* from the combined entry or from the entry of the source, without a
\* request.
RaceAnswered(w) ==
    /\ race # <<>> /\ race.pc[w] = "start"
    /\ RaceCall(cache).env.requests = 0
    /\ cache' = RaceCall(cache).env.store
    /\ race' = [race EXCEPT !.pc[w] = "done",
                            !.written[w] = Some(Payloads(RaceCall(cache).env))]
    /\ UNCHANGED <<now, call, prev_call, assessVars, matchVars, extractVars,
                   codeVars, ioVars, compareVars>>

\* No valid entry: the request is sent.
RaceRequest(w) ==
    /\ race # <<>> /\ race.pc[w] = "start"
    /\ RaceCall(cache).env.requests > 0
    /\ race' = [race EXCEPT !.pc[w] = "waiting"]
    /\ UNCHANGED <<cacheVars, assessVars, matchVars, extractVars,
                   codeVars, ioVars, compareVars>>

\* The answer is there: the caller, who found no entry, aggregates, stamps
\* and writes, over whatever the other caller wrote meanwhile.
RaceReturn(w) ==
    /\ race # <<>> /\ race.pc[w] = "waiting"
    /\ cache' = [k \in CacheKeys |->
                    IF k \in RaceCall([j \in CacheKeys |-> NONE]).env.writes
                    THEN RaceCall([j \in CacheKeys |-> NONE]).env.store[k]
                    ELSE cache[k]]
    /\ race' = [race EXCEPT
                   !.pc[w] = "done",
                   !.written[w] =
                       Some(Payloads(RaceCall([j \in CacheKeys |-> NONE]).env))]
    /\ UNCHANGED <<now, call, prev_call, assessVars, matchVars, extractVars,
                   codeVars, ioVars, compareVars>>

NextRace ==
    \/ Tick
    \/ \E w \in Callers : RaceAnswered(w)
    \/ \E w \in Callers : RaceRequest(w)
    \/ \E w \in Callers : RaceReturn(w)

SpecRace == InitRace /\ [][NextRace]_vars

\* C25: two callers that resolve the same code from the same remote rows
\* write identical payloads under every key both write, so the entry that
\* stays does not depend on which of them wrote last.
C25_OverwritesIdempotent ==
    (race # <<>> /\ \A w \in Callers : race.written[w] # NONE) =>
        \A k \in DOMAIN Val(race.written[1]) \cap DOMAIN Val(race.written[2]) :
            Val(race.written[1])[k] = Val(race.written[2])[k]


\* The resolver on a finer clock: steps of a third of the expiry time, so that
\* an entry can be written while an older one is still valid and be read
\* after the older one has expired.
ThirdHours == CACHE_EXPIRY_HOURS \div 3
MaxThirds == 4

TickThird ==
    /\ now + ThirdHours <= MaxThirds * ThirdHours
    /\ now' = now + ThirdHours
    /\ call' = NONE
    /\ UNCHANGED <<cache, prev_call, assessVars, matchVars, extractVars, codeVars, ioVars, compareVars, raceVars>>

NextFresh ==
    \/ TickThird
    \/ \E code \in Codes, desc \in {<<>>, <<"visit">>} : GetCombinedPricing(code, desc)

SpecFresh == Init /\ [][NextFresh]_vars

\* The hours between the remote fetch of a per-source payload and time t.
Age(data, t) == t - Val(data).cached_at

\* C29: every per-source payload in a result get_combined_pricing returns,
\* with or without a bill description, was fetched from the remote dataset
\* at most 24 hours before the call that returns it.
C29_FreshnessBound ==
    call # NONE =>
        /\ Val(call).result.physician_fee # NONE =>
               Age(Val(call).result.physician_fee, Val(call).at) <= CACHE_EXPIRY_HOURS
        /\ Val(call).result.drug_pricing # NONE =>
               Age(Val(call).result.drug_pricing, Val(call).at) <= CACHE_EXPIRY_HOURS

-----------------------------------------------------------------------------
(* Price Assessment Engine: routes/compare.py                              *)

\* round(n/d) to the nearest integer, d > 0.  On an exact tie the result of
\* Python's round() on a float depends on the binary representation of the
\* operand, so both neighbours are possible.
RoundSet(n, d) ==
    LET q == n \div d
        r == n % d
    IN  IF 2 * r < d THEN {q}
        ELSE IF 2 * r > d THEN {q + 1}
        ELSE {q, q + 1}

\* round(billed - fair_price, 2), in mills
RoundSavings(billed, fair) == {10 * c : c \in RoundSet(billed - fair, 10)}

\* round((billed - fair_price) / fair_price * 100, 1), in tenths of a percent
RoundVariance(billed, fair) == RoundSet((billed - fair) * 1000, fair)

UnknownAssessment ==
    [status |-> "unknown", variance |-> NONE, savings |-> NONE, fair_price |-> NONE]

\* The drug list price taken before the per-unit spending figure.
CmsFairPriceListPriceFirst(cms_data) ==
    LET c == Val(cms_data)
        fromDrug ==
            IF ~IsNone(c.drug_pricing)
            THEN IF Truthy(Val(c.drug_pricing).asp_price)
                 THEN Val(c.drug_pricing).asp_price
                 ELSE IF Truthy(Val(c.drug_pricing).avg_spending_per_unit)
                      THEN Val(c.drug_pricing).avg_spending_per_unit
                      ELSE NONE
            ELSE NONE
        fromFacility ==
            IF IsNone(fromDrug) /\ ~IsNone(c.facility_fee)
                /\ Truthy(Val(c.facility_fee).average)
            THEN Val(c.facility_fee).average
            ELSE fromDrug
    IN  IF IsNone(fromFacility) /\ ~IsNone(c.physician_fee)
            /\ Truthy(Val(c.physician_fee).average)
        THEN Val(c.physician_fee).average
        ELSE fromFacility

\* The reference price assess_price_cms picks from a resolver result.
CmsFairPrice(cms_data) ==
    LET c == Val(cms_data)
        fromDrug ==
            IF ~IsNone(c.drug_pricing)
            THEN IF Truthy(Val(c.drug_pricing).avg_spending_per_unit)
                 THEN Val(c.drug_pricing).avg_spending_per_unit
                 ELSE IF Truthy(Val(c.drug_pricing).asp_price)
                      THEN Val(c.drug_pricing).asp_price
                      ELSE NONE
            ELSE NONE
        fromFacility ==
            IF IsNone(fromDrug) /\ ~IsNone(c.facility_fee)
                /\ Truthy(Val(c.facility_fee).average)
            THEN Val(c.facility_fee).average
            ELSE fromDrug
        fromPhysician ==
            IF IsNone(fromFacility) /\ ~IsNone(c.physician_fee)
                /\ Truthy(Val(c.physician_fee).average)
            THEN Val(c.physician_fee).average
            ELSE fromFacility
    IN  fromPhysician

\* The band edge excluded: billed < fair_price * 1.5
CmsFairBandExclusive(billed, fair) == 2 * billed < 3 * fair
\* The comparison turned round: billed >= fair_price * 1.2
MockFairBandFlipped(billed, fair) == 5 * billed >= 6 * fair

\* The fallback dataset scored with the high band of the remote one.
MockHighBandDoubled(billed, fair) == billed <= 2 * fair

CmsFairBand(billed, fair) == 2 * billed <= 3 * fair     \* billed <= fair_price * 1.5
CmsHighBand(billed, fair) == billed <= 2 * fair         \* billed <= fair_price * 2.0
MockFairBand(billed, fair) == 5 * billed <= 6 * fair    \* billed <= fair_price * 1.2
MockHighBand(billed, fair) == 2 * billed <= 3 * fair    \* billed <= fair_price * 1.5

\* The tuples assess_price_cms(billed, cms_data) can return.
assess_price_cms(billed, cms_data) ==
    IF IsNone(cms_data) THEN {UnknownAssessment}
    ELSE LET fp == CmsFairPrice(cms_data) IN
         IF IsNone(fp) THEN {UnknownAssessment}
         ELSE LET fair == Val(fp) IN
              IF billed <= fair
              THEN {[status |-> "low", variance |-> Some(v), savings |-> Some(0),
                     fair_price |-> fp] : v \in RoundVariance(billed, fair)}
              ELSE IF CmsFairBand(billed, fair)
              THEN {[status |-> "fair", variance |-> Some(v), savings |-> Some(0),
                     fair_price |-> fp] : v \in RoundVariance(billed, fair)}
              ELSE IF CmsHighBand(billed, fair)
              THEN {[status |-> "high", variance |-> Some(v), savings |-> Some(s),
                     fair_price |-> fp] :
                        v \in RoundVariance(billed, fair), s \in RoundSavings(billed, fair)}
              ELSE {[status |-> "very_high", variance |-> Some(v), savings |-> Some(s),
                     fair_price |-> fp] :
                        v \in RoundVariance(billed, fair), s \in RoundSavings(billed, fair)}

\* The tuples assess_price_mock(billed, gross_charge, negotiated_rate) can return.
assess_price_mock(billed, gross_charge, negotiated_rate) ==
    IF IsNone(gross_charge) \/ IsNone(negotiated_rate) THEN {UnknownAssessment}
    ELSE LET fair == Val(negotiated_rate) IN
         IF billed <= fair
         THEN {[status |-> "low", variance |-> Some(v), savings |-> Some(0),
                fair_price |-> negotiated_rate] : v \in RoundVariance(billed, fair)}
         ELSE IF MockFairBand(billed, fair)
         THEN {[status |-> "fair", variance |-> Some(v), savings |-> Some(0),
                fair_price |-> negotiated_rate] : v \in RoundVariance(billed, fair)}
         ELSE IF MockHighBand(billed, fair)
         THEN {[status |-> "high", variance |-> Some(v), savings |-> Some(s),
                fair_price |-> negotiated_rate] :
                   v \in RoundVariance(billed, fair), s \in RoundSavings(billed, fair)}
         ELSE {[status |-> "very_high", variance |-> Some(v), savings |-> Some(s),
                fair_price |-> negotiated_rate] :
                   v \in RoundVariance(billed, fair), s \in RoundSavings(billed, fair)}

\* Billed amounts and reference prices tried, in mills: on, just above and
\* between the band edges of the two reference prices 100.000 and 33.333.
BilledAmounts ==
    {50000, 70000, 100000, 100010, 120000, 120010, 150000, 150010, 160000,
     200000, 200010, 250000}
OptPrices == {NONE, Some(0), Some(33333), Some(100000)}

CmsInputs ==
    {NONE} \cup
    {Some([drug_pricing |-> d, facility_fee |-> f, physician_fee |-> p]) :
        d \in {NONE} \cup {Some([avg_spending_per_unit |-> u, asp_price |-> a]) :
                              u \in {NONE, Some(0), Some(100000)},
                              a \in {NONE, Some(33333)}},
        f \in {NONE, Some([average |-> NONE]), Some([average |-> Some(33333)])},
        p \in {NONE} \cup {Some([average |-> a]) : a \in OptPrices}}

InitAssess ==
    /\ IdleMatch /\ IdleCache /\ IdleExtract /\ IdleCode /\ IdleIO /\ IdleCompare /\ IdleRace
    /\ assess_out = NONE
    /\ \E b1 \in BilledAmounts, b2 \in BilledAmounts :
        \/ \E c \in CmsInputs :
              assess_in = [fn |-> "cms", billed |-> b1, billed2 |-> b2,
                           cms_data |-> c, gross_charge |-> NONE,
                           negotiated_rate |-> NONE]
        \/ \E g \in {NONE, Some(385000)}, n \in OptPrices \ {Some(0)} :
              assess_in = [fn |-> "mock", billed |-> b1, billed2 |-> b2,
                           cms_data |-> NONE, gross_charge |-> g,
                           negotiated_rate |-> n]

\* The item loop of compare_charges assessing two amounts against the same
\* resolver result.
AssessCms ==
    /\ assess_in.fn = "cms" /\ assess_out = NONE
    /\ \E r1 \in assess_price_cms(assess_in.billed, assess_in.cms_data),
          r2 \in assess_price_cms(assess_in.billed2, assess_in.cms_data) :
          assess_out' = Some(<<r1, r2>>)
    /\ UNCHANGED <<assess_in, matchVars, cacheVars, extractVars, codeVars, ioVars, compareVars, raceVars>>

AssessMock ==
    /\ assess_in.fn = "mock" /\ assess_out = NONE
    /\ \E r1 \in assess_price_mock(assess_in.billed, assess_in.gross_charge,
                                   assess_in.negotiated_rate),
          r2 \in assess_price_mock(assess_in.billed2, assess_in.gross_charge,
                                   assess_in.negotiated_rate) :
          assess_out' = Some(<<r1, r2>>)
    /\ UNCHANGED <<assess_in, matchVars, cacheVars, extractVars, codeVars, ioVars, compareVars, raceVars>>

NextAssess == AssessCms \/ AssessMock

SpecAssess == InitAssess /\ [][NextAssess]_vars

\* The first of the two assessments, once made.
Assessed == assess_out # NONE
FirstResult == Val(assess_out)[1]
SecondResult == Val(assess_out)[2]

\* The tier assess_price_cms must report for billed against fair > 0.
CmsTier(billed, fair) ==
    IF billed <= fair THEN "low"
    ELSE IF 2 * billed <= 3 * fair THEN "fair"
    ELSE IF billed <= 2 * fair THEN "high"
    ELSE "very_high"

\* C9 as stated: with a resolved fair price fair > 0, assess_price_cms
\* returns low / fair with savings 0 up to 1.5 * fair, and high / very_high
\* with savings exactly billed - fair above it.
C9_TiersAndExactSavings ==
    (Assessed /\ assess_in.fn = "cms" /\ FirstResult.status # "unknown") =>
        LET billed == assess_in.billed
            fair == Val(FirstResult.fair_price)
            tier == FirstResult.status
        IN  /\ fair > 0
            /\ tier = CmsTier(billed, fair)
            /\ tier \in {"low", "fair"} => FirstResult.savings = Some(0)
            /\ tier \in {"high", "very_high"} =>
                    FirstResult.savings = Some(billed - fair)

\* C9 as amended: the same tiers, and for high / very_high the savings are
\* billed - fair rounded to a whole cent (within half a cent of billed - fair).
C9_TiersAndRoundedSavings ==
    (Assessed /\ assess_in.fn = "cms" /\ FirstResult.status # "unknown") =>
        LET billed == assess_in.billed
            fair == Val(FirstResult.fair_price)
            tier == FirstResult.status
            s == Val(FirstResult.savings)
        IN  /\ fair > 0
            /\ tier = CmsTier(billed, fair)
            /\ tier \in {"low", "fair"} => s = 0
            /\ tier \in {"high", "very_high"} =>
                    /\ s % 10 = 0
                    /\ 2 * (s - (billed - fair)) <= 10
                    /\ 2 * ((billed - fair) - s) <= 10

\* C9 witness: a bill above twice a reference price that has sub-cent digits
\* was assessed very_high.
C9_Witness ==
    /\ Assessed /\ assess_in.fn = "cms"
    /\ FirstResult.status = "very_high"
    /\ FirstResult.fair_price = Some(33333)
    /\ assess_in.billed = 70000

TierRank(status) ==
    CASE status = "low" -> 1
      [] status = "fair" -> 2
      [] status = "high" -> 3
      [] status = "very_high" -> 4

\* C10: for a fixed positive fair price, in assess_price_cms and in
\* assess_price_mock alike, billed1 <= billed2 implies tier(billed1) <=
\* tier(billed2) in the order low < fair < high < very_high.
C10_TierMonotone ==
    (Assessed /\ FirstResult.status # "unknown"
        /\ assess_in.billed <= assess_in.billed2) =>
        /\ SecondResult.status # "unknown"
        /\ FirstResult.fair_price = SecondResult.fair_price
        /\ TierRank(FirstResult.status) <= TierRank(SecondResult.status)

\* C10 witness: the fallback assessment put a smaller bill in the fair tier
\* and a larger one, against the same rate, in the very_high tier.
C10_Witness ==
    /\ Assessed /\ assess_in.fn = "mock"
    /\ assess_in.billed < assess_in.billed2
    /\ FirstResult.status = "fair"
    /\ SecondResult.status = "very_high"

\* The four figures of a resolver result in the order of preference; a
\* figure whose parent record is missing is missing.
FairPriceFigures(cms_data) ==
    LET c == Val(cms_data) IN
    << IF IsNone(c.drug_pricing) THEN NONE
       ELSE Val(c.drug_pricing).avg_spending_per_unit,
       IF IsNone(c.drug_pricing) THEN NONE ELSE Val(c.drug_pricing).asp_price,
       IF IsNone(c.facility_fee) THEN NONE ELSE Val(c.facility_fee).average,
       IF IsNone(c.physician_fee) THEN NONE ELSE Val(c.physician_fee).average >>

RECURSIVE FirstNonNull(_)
FirstNonNull(figures) ==
    IF figures = <<>> THEN NONE
    ELSE IF figures[1] # NONE THEN figures[1]
    ELSE FirstNonNull(Tail(figures))

RECURSIVE FirstNonZero(_)
FirstNonZero(figures) ==
    IF figures = <<>> THEN NONE
    ELSE IF figures[1] # NONE /\ Val(figures[1]) # 0 THEN figures[1]
    ELSE FirstNonZero(Tail(figures))

\* C17 as stated: the fair price is the first non-null of per-unit spending,
\* list price, facility average, physician average; with none present, or
\* no resolver result, the answer is 'unknown' with nulls.
C17_FirstNonNullFigure ==
    (Assessed /\ assess_in.fn = "cms") =>
        LET picked == IF IsNone(assess_in.cms_data) THEN NONE
                      ELSE FirstNonNull(FairPriceFigures(assess_in.cms_data))
        IN  IF picked = NONE THEN FirstResult = UnknownAssessment
            ELSE FirstResult.fair_price = picked

\* C17 as amended: the fair price is the first of the four figures that is
\* neither null nor zero; with no such figure, or no resolver result, the
\* answer is 'unknown' with nulls.
C17_FirstNonZeroFigure ==
    (Assessed /\ assess_in.fn = "cms") =>
        LET picked == IF IsNone(assess_in.cms_data) THEN NONE
                      ELSE FirstNonZero(FairPriceFigures(assess_in.cms_data))
        IN  IF picked = NONE THEN FirstResult = UnknownAssessment
            ELSE FirstResult.fair_price = picked /\ FirstResult.status # "unknown"

\* C17 witness: a drug record with a per-unit spending of zero and a list
\* price was assessed against the list price.
C17_Witness ==
    /\ Assessed /\ assess_in.fn = "cms"
    /\ ~IsNone(assess_in.cms_data)
    /\ ~IsNone(Val(assess_in.cms_data).drug_pricing)
    /\ Val(Val(assess_in.cms_data).drug_pricing).avg_spending_per_unit = Some(0)
    /\ Val(Val(assess_in.cms_data).drug_pricing).asp_price = Some(33333)
    /\ ~IsNone(Val(assess_in.cms_data).facility_fee)
    /\ FirstResult.fair_price = Some(33333)

\* The tier assess_price_mock must report for billed against fair > 0.
MockTier(billed, fair) ==
    IF billed <= fair THEN "low"
    ELSE IF 5 * billed <= 6 * fair THEN "fair"
    ELSE IF 2 * billed <= 3 * fair THEN "high"
    ELSE "very_high"

\* A resolver result whose only figure is the physician payment fair.
OnlyPhysicianFee(fair) ==
    Some([drug_pricing |-> NONE, facility_fee |-> NONE,
          physician_fee |-> Some([average |-> fair])])

\* C26: against a negotiated rate fair > 0 assess_price_mock reports low up
\* to fair, fair up to 1.2 * fair, high up to 1.5 * fair and very_high
\* above, and its tier is never below the tier assess_price_cms reports for
\* the same bill against the same fair price.
C26_MockBandsTighter ==
    (Assessed /\ assess_in.fn = "mock" /\ FirstResult.status # "unknown") =>
        LET billed == assess_in.billed
            fair == Val(assess_in.negotiated_rate)
        IN  /\ fair > 0
            /\ FirstResult.fair_price = assess_in.negotiated_rate
            /\ FirstResult.status = MockTier(billed, fair)
            /\ \A r \in assess_price_cms(billed,
                                        OnlyPhysicianFee(assess_in.negotiated_rate)) :
                  /\ r.status # "unknown"
                  /\ TierRank(r.status) <= TierRank(FirstResult.status)

\* C26 witness: a bill at 1.5 times the rate is high on the fallback
\* dataset, where assess_price_cms calls it fair.
C26_Witness ==
    /\ Assessed /\ assess_in.fn = "mock"
    /\ assess_in.billed = 150000
    /\ assess_in.negotiated_rate = Some(100000)
    /\ FirstResult.status = "high"
    /\ \E r \in assess_price_cms(150000, OnlyPhysicianFee(Some(100000))) :
          r.status = "fair"

-----------------------------------------------------------------------------
(* Line-item extractor: pdf_extractor.py, llm_extractor.py                 *)
(*                                                                         *)
(* A text (a table cell, a line of page text, a description) is a sequence *)
(* of tokens, written in the document with one blank between neighbours.   *)
(* A token records what the extractor's regular expressions can see of it: *)
(*   k    "W" word of letters, "P" a lone bracket, "H" letter + 4 digits,  *)
(*        "C" 5 digits, "R" 0 + 3 digits, "A" currency numeral with two    *)
(*        decimals, "N" short integer, "D" date like 01/15/2024            *)
(*   s    its characters, brackets excluded                                *)
(*   n    the number of characters of s                                    *)
(*   c    the first numeral in it, in mills (-1 when it has no digit)      *)
(*   par  the brackets around it: "none", "both" as in (55150), or         *)
(*        "close" as in 55150) once a splitter has cut the opening one off *)
(* An item's amount is a float parsed from a decimal numeral; it is the    *)
(* numeral's value in mills here, and two amounts compare as the mills do. *)

Tok(k, s, n, c) == [k |-> k, s |-> s, n |-> n, c |-> c, par |-> "none"]
Paren(t) == [t EXCEPT !.par = "both"]

TokLen(t) ==
    t.n + (CASE t.par = "both" -> 2 [] t.par = "close" -> 1 [] OTHER -> 0)

RECURSIVE SumLen(_)
SumLen(text) == IF text = <<>> THEN 0 ELSE TokLen(Head(text)) + SumLen(Tail(text))

\* len(text) of a stripped text whose tokens are one blank apart
TextLen(text) == IF text = <<>> THEN 0 ELSE SumLen(text) + Len(text) - 1

\* r'\b([A-Z]\d{4})\b', r'\b(\d{5})\b', r'\b(0\d{3})\b': a bracket is a word
\* boundary, so a code in brackets is found as well
IsHcpcs(t) == t.k = "H"
IsCpt(t) == t.k = "C"
IsRevenue(t) == t.k = "R"
IsCode(t) == t.k \in {"H", "C"}
\* r'\$?\s*([\d,]+\.\d{2})'
IsAmount(t) == t.k = "A"
\* the characters of r'^[\d\$\.,\s]+$'
IsNumeric(t) == t.k \in {"C", "R", "A", "N"} /\ t.par = "none"
\* str.isdigit()
IsDigits(t) == t.k \in {"C", "R", "N"} /\ t.par = "none"

\* f"({code})" in text
InParentheses(text, code) ==
    \E i \in 1..Len(text) : text[i].s = code /\ text[i].par = "both"

\* valid_cpts of extract_code: a code outside brackets goes to the front, one
\* in brackets to the back.  The telephone-number test needs ten digits
\* within fifteen characters, which blank-separated tokens of at most five
\* digits never give.
RECURSIVE ValidCpts(_, _, _)
ValidCpts(text, cpt_matches, valid_cpts) ==
    IF cpt_matches = <<>> THEN valid_cpts
    ELSE LET code == Head(cpt_matches).s
         IN  ValidCpts(text, Tail(cpt_matches),
                       IF ~InParentheses(text, code)
                       THEN <<code>> \o valid_cpts
                       ELSE valid_cpts \o <<code>>)

extract_code(text) ==
    LET hcpcs_matches == SelectSeq(text, IsHcpcs)
        outside == SelectSeq(hcpcs_matches, LAMBDA t : ~InParentheses(text, t.s))
        valid_cpts == ValidCpts(text, SelectSeq(text, IsCpt), <<>>)
        revenue == SelectSeq(text, IsRevenue)
    IN  IF hcpcs_matches # <<>>
        THEN Some(IF outside # <<>> THEN outside[1].s ELSE hcpcs_matches[1].s)
        ELSE IF valid_cpts # <<>> THEN Some(valid_cpts[1])
        ELSE IF revenue # <<>> THEN Some(revenue[1].s)
        ELSE NONE

Item(code, description, quantity, amount) ==
    [code |-> code, description |-> description,
     quantity |-> quantity, amount |-> amount]

\* text[:limit]; a token the cut would fall in is dropped whole
RECURSIVE Clip(_, _)
Clip(text, limit) ==
    IF TextLen(text) <= limit THEN text
    ELSE Clip(SubSeq(text, 1, Len(text) - 1), limit)

HasDigit(t) == t.c >= 0

\* re.search(r'\$?\s*([\d,]+\.?\d{0,2})', cell): the first numeral of the
\* cell, whatever kind of token it is part of; -1 when there is none
FirstNumeral(cell) ==
    LET numerals == SelectSeq(cell, HasDigit)
    IN  IF numerals = <<>> THEN -1 ELSE numerals[1].c

\* val > 1 and val < 1000000
PlausibleAmount(val) == val > 1000 /\ val < 1000000000

\* r'^\d{1,2}[/\-]\d{1,2}[/\-]\d{2,4}$'
IsDateCell(cell) == Len(cell) = 1 /\ cell[1].k = "D"

\* r'^[\d\$\.,\s]+$'
IsNumericCell(cell) ==
    cell # <<>> /\ \A i \in 1..Len(cell) : IsNumeric(cell[i])

\* cell.replace(potential_cpt, '').strip().isdigit()
RestIsDigits(cell, potential_cpt) ==
    LET rest == SelectSeq(cell, LAMBDA t : t.s # potential_cpt)
    IN  /\ ~InParentheses(cell, potential_cpt)
        /\ Len(rest) = 1
        /\ IsDigits(rest[1])

\* The (column, code) pairs parse_table_row collects for one kind of code.
\* Columns count from 1 here, from 0 in the code.
RECURSIVE CodesByColumn(_, _, _)
CodesByColumn(cells, idx, kind) ==
    IF idx > Len(cells) THEN <<>>
    ELSE LET cell == cells[idx]
             found == SelectSeq(cell, LAMBDA t : t.k = kind)
             taken == /\ ~IsDateCell(cell)
                      /\ found # <<>>
                      /\ kind = "C" => ~RestIsDigits(cell, found[1].s)
         IN  (IF taken THEN << <<idx, found[1].s>> >> ELSE <<>>)
             \o CodesByColumn(cells, idx + 1, kind)

\* The head of codes.sort(key=lambda x: (0 if x[0] >= col else 1, x[0])),
\* col counted from 0: the earliest column among those at or after col,
\* failing that the earliest column.
FirstAfterSort(codes, col) ==
    LET later == SelectSeq(codes, LAMBDA x : x[1] - 1 >= col)
    IN  IF later # <<>> THEN later[1][2] ELSE codes[1][2]

\* r'\s*\([A-Z0-9]{4,5}\)\s*' replaced by a blank
WithoutBracketed(description) ==
    SelectSeq(description, LAMBDA t : ~(t.par = "both" /\ t.k \in {"H", "C", "R"}))

parse_table_row(row) ==
    LET cells == SelectSeq(row, LAMBDA c : c # <<>>)
        amount_cols == {i \in 1..Len(cells) : PlausibleAmount(FirstNumeral(cells[i]))}
        amount_idx == CHOOSE i \in amount_cols : \A j \in amount_cols : j <= i
        hcpcs_codes == CodesByColumn(cells, 1, "H")
        cpt_codes == CodesByColumn(cells, 1, "C")
        revenue_codes == CodesByColumn(cells, 1, "R")
        code == IF hcpcs_codes # <<>> THEN Some(FirstAfterSort(hcpcs_codes, 2))
                ELSE IF cpt_codes # <<>> THEN Some(FirstAfterSort(cpt_codes, 2))
                ELSE IF revenue_codes # <<>> THEN Some(FirstAfterSort(revenue_codes, 1))
                ELSE NONE
        texts == {i \in 1..Len(cells) :
                     /\ i # amount_idx
                     /\ ~IsNumericCell(cells[i])
                     /\ TextLen(cells[i]) > 3}
        longest == CHOOSE i \in texts :
                     \A j \in texts :
                        \/ TextLen(cells[j]) < TextLen(cells[i])
                        \/ TextLen(cells[j]) = TextLen(cells[i]) /\ i <= j
        description == IF hcpcs_codes # <<>> \/ cpt_codes # <<>>
                       THEN WithoutBracketed(cells[longest])
                       ELSE cells[longest]
    IN  IF Len(cells) < 2 THEN NONE
        ELSE IF amount_cols = {} THEN NONE
        ELSE IF texts = {} THEN NONE
        ELSE Some(Item(code, Clip(description, 100), 1, FirstNumeral(cells[amount_idx])))

OpenBracket == Tok("P", "(", 1, -1)
CloseBracket == Tok("P", ")", 1, -1)
BracketPair == Tok("P", "()", 2, -1)

\* re.findall(r'([A-Za-z][^$\d]*?)\s*\$?\s*([\d,]+\.\d{2})', cell_text): each
\* currency numeral with the text that leads up to it.  The text begins at
\* a letter and holds no digit, so it reaches back to the last token with a
\* digit (or the previous numeral) and no further; run is that text so far.
RECURSIVE MergedCellMatches(_, _)
MergedCellMatches(text, run) ==
    IF text = <<>> THEN <<>>
    ELSE LET t == Head(text)
         IN  IF IsAmount(t)
             THEN (IF run # <<>> THEN << <<run, t.c>> >> ELSE <<>>)
                  \o MergedCellMatches(Tail(text), <<>>)
             ELSE IF HasDigit(t) THEN MergedCellMatches(Tail(text), <<>>)
             ELSE IF t.k = "P" /\ run = <<>> THEN MergedCellMatches(Tail(text), <<>>)
             ELSE MergedCellMatches(Tail(text), run \o <<t>>)

RECURSIVE MergedCellItems(_)
MergedCellItems(matches) ==
    IF matches = <<>> THEN <<>>
    ELSE LET desc == Head(matches)[1]
             amount == Head(matches)[2]
         IN  (IF TextLen(desc) >= 3 /\ amount > 500
              THEN <<Item(extract_code(desc), Clip(desc, 100), 1, amount)>>
              ELSE <<>>)
             \o MergedCellItems(Tail(matches))

split_merged_cell(cell_text) ==
    MergedCellItems(MergedCellMatches(cell_text, <<>>))

\* The amounts a text holds, in order.
RECURSIVE Amounts(_)
Amounts(text) ==
    IF text = <<>> THEN <<>>
    ELSE (IF IsAmount(Head(text)) THEN <<Head(text).c>> ELSE <<>>) \o Amounts(Tail(text))

RECURSIVE Concat(_)
Concat(cells) == IF cells = <<>> THEN <<>> ELSE Head(cells) \o Concat(Tail(cells))

\* r'\bHC\s+', re.IGNORECASE: the word HC with something after it
IsHC(t) == t.k = "W" /\ t.s \in {"HC", "hc", "Hc", "hC"}
HCStarts(text) == {i \in 1..Len(text) : IsHC(text[i]) /\ i < Len(text)}

\* re.split at the given places: each part runs up to the next cut; an
\* empty first part is dropped.
RECURSIVE PartsFrom(_, _, _)
PartsFrom(text, cuts, i) ==
    IF i > Len(text) THEN <<>>
    ELSE LET after == {k \in cuts : k > i} \cup {Len(text) + 1}
             next == CHOOSE k \in after : \A m \in after : k <= m
         IN  <<SubSeq(text, i, next - 1)>> \o PartsFrom(text, cuts, next)

\* A cut in front of a code in brackets falls behind the opening bracket,
\* which stays with the part before.
RECURSIVE OpenedUp(_)
OpenedUp(text) ==
    IF text = <<>> THEN <<>>
    ELSE (IF IsCode(Head(text)) /\ Head(text).par = "both"
          THEN <<OpenBracket, [Head(text) EXCEPT !.par = "close"]>>
          ELSE <<Head(text)>>)
         \o OpenedUp(Tail(text))

\* re.sub(r'\b(?:[A-Z]\d{4}|\d{5})\b', '', part): brackets stay behind
RECURSIVE WithoutCodes(_)
WithoutCodes(text) ==
    IF text = <<>> THEN <<>>
    ELSE LET t == Head(text)
         IN  (IF ~IsCode(t) THEN <<t>>
              ELSE IF t.par = "both" THEN <<BracketPair>>
              ELSE IF t.par = "close" THEN <<CloseBracket>>
              ELSE <<>>)
             \o WithoutCodes(Tail(text))

\* re.sub(r'\$?\s*[\d,]+\.\d{2}', '', text)
WithoutAmounts(text) == SelectSeq(text, LAMBDA t : ~IsAmount(t))

\* [p.strip() for p in parts if p.strip() and len(p) > 5]: the length is
\* taken before the strip, with the blank that ends a part counted in
RECURSIVE LongParts(_, _)
LongParts(parts, i) ==
    IF i > Len(parts) THEN <<>>
    ELSE LET p == parts[i]
             blank == IF i < Len(parts) /\ p[Len(p)] # OpenBracket THEN 1 ELSE 0
         IN  (IF TextLen(p) + blank > 5 THEN <<p>> ELSE <<>>)
             \o LongParts(parts, i + 1)

\* the loop over enumerate(parts) of split_merged_descriptions, at part i
RECURSIVE DescriptionItems(_, _, _)
DescriptionItems(parts, amounts, i) ==
    IF i > Len(parts) THEN <<>>
    ELSE LET code == extract_code(parts[i])
             desc == WithoutCodes(parts[i])
             amount == IF i <= Len(amounts) THEN Some(amounts[i])
                       ELSE IF amounts # <<>> THEN Some(amounts[1])
                       ELSE NONE
         IN  (IF TextLen(desc) >= 3 /\ Truthy(amount) /\ Val(amount) > 500
              THEN <<Item(code, Clip(desc, 100), 1, Val(amount))>>
              ELSE <<>>)
             \o DescriptionItems(parts, amounts, i + 1)

split_merged_descriptions(cells) ==
    LET amounts == Amounts(Concat(cells))
        texts == {i \in 1..Len(cells) : cells[i] # <<>> /\ ~IsNumericCell(cells[i])}
        longest == CHOOSE i \in texts :
                     \A j \in texts :
                        \/ TextLen(cells[j]) < TextLen(cells[i])
                        \/ TextLen(cells[j]) = TextLen(cells[i]) /\ i <= j
        merged_desc == cells[longest]
        by_hc == PartsFrom(merged_desc, HCStarts(merged_desc), 1)
        opened == OpenedUp(merged_desc)
        by_code == LongParts(
                     PartsFrom(opened, {i \in 1..Len(opened) : IsCode(opened[i])}, 1), 1)
        parts == IF Len(by_hc) <= 1 THEN by_code ELSE by_hc
    IN  IF texts = {} THEN <<>>
        ELSE DescriptionItems(parts, amounts, 1)

\* the loop over enumerate(code_matches) of split_by_codes, at match i
RECURSIVE CodeItems(_, _, _)
CodeItems(cell_text, code_matches, i) ==
    IF i > Len(code_matches) THEN <<>>
    ELSE LET at == code_matches[i]
             match == cell_text[at]
             last == i = Len(code_matches)
             end == IF last THEN Len(cell_text) + 1 ELSE code_matches[i + 1]
             between ==
                 (IF match.par \in {"both", "close"} THEN <<CloseBracket>> ELSE <<>>)
                 \o WithoutAmounts(SubSeq(cell_text, at + 1, end - 1))
                 \o (IF ~last /\ cell_text[end].par = "both"
                     THEN <<OpenBracket>> ELSE <<>>)
             prefix ==
                 WithoutAmounts(SubSeq(cell_text, 1, at - 1))
                 \o (IF match.par = "both" THEN <<OpenBracket>> ELSE <<>>)
             desc_part == IF i = 1 /\ TextLen(prefix) > 3
                          THEN prefix \o between
                          ELSE between
             description ==
                 IF TextLen(desc_part) < 3
                 THEN <<Tok("W", "Procedure", 9, -1), [match EXCEPT !.par = "none"]>>
                 ELSE desc_part
             amount_values == Amounts(cell_text)
             behind == Amounts(SubSeq(cell_text, at + 1, Len(cell_text)))
             amount == IF i <= Len(amount_values) THEN Some(amount_values[i])
                       ELSE IF behind # <<>> THEN Some(behind[1])
                       ELSE NONE
         IN  (IF Truthy(amount) /\ Val(amount) > 500
              THEN <<Item(Some(match.s), Clip(description, 100), 1, Val(amount))>>
              ELSE <<>>)
             \o CodeItems(cell_text, code_matches, i + 1)

split_by_codes(cell_text) ==
    LET code_matches == SelectSeq([i \in 1..Len(cell_text) |-> i],
                                  LAMBDA i : IsCode(cell_text[i]))
    IN  IF Len(code_matches) < 2 THEN <<>>
        ELSE CodeItems(cell_text, code_matches, 1)

\* the loop over the cells of parse_table_row_with_split, at cell i
RECURSIVE SplitFrom(_, _)
SplitFrom(row, i) ==
    IF i > Len(row)
    THEN (IF parse_table_row(row) = NONE THEN <<>> ELSE parse_table_row(row))
    ELSE LET cell == row[i]
         IN  IF cell = <<>> THEN SplitFrom(row, i + 1)
             ELSE IF Len(Amounts(cell)) >= 2 THEN split_merged_cell(cell)
             ELSE IF Cardinality(HCStarts(cell)) >= 2 THEN split_merged_descriptions(row)
             ELSE IF TextLen(cell) > 20 /\ Len(SelectSeq(cell, IsCode)) >= 2
                  THEN split_by_codes(cell)
             ELSE SplitFrom(row, i + 1)

parse_table_row_with_split(row) == SplitFrom(row, 1)

skip_words ==
    {"total", "subtotal", "balance", "payment", "date", "page",
     "account", "patient", "insurance", "amount due", "paid"}

skip_patterns ==
    skip_words \cup {"statement", "billing", "address", "phone", "fax"}

\* str.lower(), for the words that occur here
LowerCase(s) ==
    CASE s = "HC" -> "hc"
      [] s = "J2003" -> "j2003"
      [] s = "Procedure" -> "procedure"
      [] OTHER -> s

\* any(skip in line.lower() for skip in skips): a word that occurs here
\* holds one of these only by being it
Skipped(line, skips) ==
    \E i \in 1..Len(line) : line[i].k = "W" /\ LowerCase(line[i].s) \in skips

\* description[:50].lower()
DescKey(description) ==
    LET head == Clip(description, 50)
    IN  [i \in 1..Len(head) |-> [head[i] EXCEPT !.s = LowerCase(@)]]

\* r'(.+?)\s+\$?([\d,]+\.\d{2})\s*$': the line ends in a currency numeral
\* and everything before it is the description
Pattern1(line) ==
    IF Len(line) >= 2 /\ IsAmount(line[Len(line)])
    THEN Some([code |-> extract_code(SubSeq(line, 1, Len(line) - 1)),
               description |-> SubSeq(line, 1, Len(line) - 1),
               amount |-> line[Len(line)].c])
    ELSE NONE

\* r'(\d{5}|[A-Z]\d{4})?\s*(.+?)\s+\$?([\d,]+\.\d{2})\s+(\d+)?': a currency
\* numeral with something behind it on the line.  The match starts at the
\* first character.  When the line opens with a code, group 1 takes it and
\* group 2 runs from the second token to the first such numeral from the
\* third token on; only when there is none does group 1 stay empty and
\* group 2 run from the first token to the first such numeral.
Pattern2(line) ==
    LET inner == {j \in 1..(Len(line) - 1) : IsAmount(line[j])}
        with_code == {j \in inner : j >= 3}
        without == {j \in inner : j >= 2}
        a == CHOOSE j \in with_code : \A m \in with_code : j <= m
        b == CHOOSE j \in without : \A m \in without : j <= m
    IN  IF line # <<>> /\ IsCode(line[1]) /\ line[1].par = "none" /\ with_code # {}
        THEN Some([code |-> Some(line[1].s),
                   description |-> SubSeq(line, 2, a - 1),
                   amount |-> line[a].c])
        ELSE IF without # {}
        THEN Some([code |-> NONE,
                   description |-> SubSeq(line, 1, b - 1),
                   amount |-> line[b].c])
        ELSE NONE

\* what one pattern adds to [line_items, seen_descriptions]
AddMatch(acc, match) ==
    IF /\ match # NONE
       /\ Val(match).amount > 1000
       /\ TextLen(Val(match).description) > 3
       /\ DescKey(Val(match).description) \notin acc.seen_descriptions
    THEN [line_items |->
              Append(acc.line_items,
                     Item(Val(match).code, Clip(Val(match).description, 100),
                          1, Val(match).amount)),
          seen_descriptions |->
              acc.seen_descriptions \cup {DescKey(Val(match).description)}]
    ELSE acc

\* the loop over the lines of extract_from_text
RECURSIVE TextLoop(_, _)
TextLoop(lines, acc) ==
    IF lines = <<>> THEN acc.line_items
    ELSE LET line == Head(lines)
         IN  IF line = <<>> \/ TextLen(line) < 5 \/ Skipped(line, skip_words)
             THEN TextLoop(Tail(lines), acc)
             ELSE TextLoop(Tail(lines),
                           AddMatch(AddMatch(acc, Pattern1(line)), Pattern2(line)))

extract_from_text(text) ==
    TextLoop(text, [line_items |-> <<>>, seen_descriptions |-> {}])

\* the loop over the lines of extract_from_text_aggressive
RECURSIVE AggressiveLoop(_, _, _)
AggressiveLoop(lines, items, seen_amounts) ==
    IF lines = <<>> THEN items
    ELSE LET line == Head(lines)
             amounts == Amounts(line)
             amount == amounts[Len(amounts)]
             description == WithoutAmounts(line)
         IN  IF /\ line # <<>> /\ TextLen(line) >= 10
                /\ ~Skipped(line, skip_patterns)
                /\ amounts # <<>>
                /\ amount > 1000 /\ amount < 100000000
                /\ amount \notin seen_amounts
                /\ TextLen(description) > 5
             THEN AggressiveLoop(Tail(lines),
                                 Append(items, Item(extract_code(line),
                                                    Clip(description, 100), 1, amount)),
                                 seen_amounts \cup {amount})
             ELSE AggressiveLoop(Tail(lines), items, seen_amounts)

extract_from_text_aggressive(text) == AggressiveLoop(text, <<>>, {})

\* "if item["amount"] not in existing_amounts: append, add", over new items
RECURSIVE MergeByAmount(_, _)
MergeByAmount(items, new_items) ==
    IF new_items = <<>> THEN items
    ELSE LET item == Head(new_items)
             existing_amounts == {items[i].amount : i \in 1..Len(items)}
         IN  MergeByAmount(IF item.amount \notin existing_amounts
                           THEN Append(items, item) ELSE items,
                           Tail(new_items))

\* list.sort(key=lambda x: x["amount"], reverse=True): stable
RECURSIVE InsertDescending(_, _)
InsertDescending(sorted, item) ==
    IF sorted = <<>> THEN <<item>>
    ELSE IF Head(sorted).amount >= item.amount
         THEN <<Head(sorted)>> \o InsertDescending(Tail(sorted), item)
         ELSE <<item>> \o sorted

RECURSIVE SortDescending(_)
SortDescending(items) ==
    IF items = <<>> THEN <<>>
    ELSE InsertDescending(SortDescending(SubSeq(items, 1, Len(items) - 1)),
                          items[Len(items)])

Described(s, n) == <<Tok("W", s, n, -1)>>

NoMockLineItems == <<>>

get_mock_line_items ==
    <<Item(Some("99213"), Described("Office/outpatient visit, established patient", 44), 1, 150000),
      Item(Some("85025"), Described("Complete blood count (CBC)", 26), 1, 45000),
      Item(Some("80053"), Described("Comprehensive metabolic panel", 29), 1, 75000),
      Item(Some("71046"), Described("Chest X-ray, 2 views", 20), 1, 250000),
      Item(Some("36415"), Described("Venipuncture for blood draw", 27), 1, 25000)>>

\* Strategy 3 merged whatever the length of the running list.
AfterTablesUngated(table_items, text) ==
    LET text_items == extract_from_text(text)
        with_text == IF Len(table_items) < 5
                     THEN MergeByAmount(table_items, text_items)
                     ELSE table_items
        with_aggressive == MergeByAmount(with_text, extract_from_text_aggressive(text))
    IN  IF with_aggressive = <<>>
        THEN [items |-> get_mock_line_items, path |-> "nothing found",
              text_items |-> text_items, after_text |-> with_text,
              after_aggressive |-> with_aggressive]
        ELSE [items |-> SortDescending(with_aggressive), path |-> "strategies",
              text_items |-> text_items, after_text |-> with_text,
              after_aggressive |-> with_aggressive]

\* extract_line_items_regex from strategy 2 on, given the items of the
\* tables and the text of the pages.  With the list returned go the items
\* of strategy 2 and the running list as it stood after strategy 2 and
\* after strategy 3.
AfterTables(table_items, text) ==
    LET text_items == extract_from_text(text)
        with_text == IF Len(table_items) < 5
                     THEN MergeByAmount(table_items, text_items)
                     ELSE table_items
        with_aggressive == IF Len(with_text) < 10
                           THEN MergeByAmount(with_text, extract_from_text_aggressive(text))
                           ELSE with_text
    IN  IF with_aggressive = <<>>
        THEN [items |-> get_mock_line_items, path |-> "nothing found",
              text_items |-> text_items, after_text |-> with_text,
              after_aggressive |-> with_aggressive]
        ELSE [items |-> SortDescending(with_aggressive), path |-> "strategies",
              text_items |-> text_items, after_text |-> with_text,
              after_aggressive |-> with_aggressive]

(* Vision-model backend: llm_extractor.py.  An element of the JSON array   *)
(* the model answers with is a record: which keys it has, whether float()  *)
(* and int() accept the values, the amount in mills and the quantity in    *)
(* tenths.                                                                 *)

RawItem(code, description, keys, amount, quantity, parses) ==
    [code |-> code, description |-> description, keys |-> keys,
     amount |-> amount, quantity |-> quantity, parses |-> parses]

\* int(x) of a number: towards zero
TruncateToInt(tenths) ==
    IF tenths >= 0 THEN tenths \div 10 ELSE -((-tenths) \div 10)

\* round(amount, 2); no amount here lies half-way between two cents
RoundToCents(mills) == 10 * ((mills + 5) \div 10)

\* the loop over the items of one page, lines 173-199
RECURSIVE PageLoop(_, _)
PageLoop(items, acc) ==
    IF items = <<>> THEN acc
    ELSE LET item == Head(items)
             amount == item.amount
             amount_key == RoundToCents(amount)
             quantity == IF "quantity" \in item.keys
                         THEN TruncateToInt(item.quantity) ELSE 1
         IN  IF \/ ~({"amount", "description"} \subseteq item.keys)
                \/ "amount" \notin item.parses
                \/ amount <= 0
                \/ amount_key \in acc.seen_amounts
             THEN PageLoop(Tail(items), acc)
             ELSE IF "quantity" \in item.keys /\ "quantity" \notin item.parses
             THEN PageLoop(Tail(items),
                           [acc EXCEPT !.seen_amounts = @ \cup {amount_key}])
             ELSE PageLoop(Tail(items),
                           [all_items |->
                                Append(acc.all_items,
                                       Item(item.code, Clip(item.description, 100),
                                            quantity, amount)),
                            seen_amounts |-> acc.seen_amounts \cup {amount_key}])

\* the loop over the pages; a page whose request or whose JSON fails is
\* passed over
RECURSIVE PagesLoop(_, _)
PagesLoop(pages, acc) ==
    IF pages = <<>> THEN acc.all_items
    ELSE PagesLoop(Tail(pages),
                   IF Head(pages).ok THEN PageLoop(Head(pages).items, acc) ELSE acc)

extract_with_llm(client, raises, pages) ==
    LET all_items == PagesLoop(pages, [all_items |-> <<>>, seen_amounts |-> {}])
    IN  IF ~client \/ raises \/ all_items = <<>> THEN NONE
        ELSE Some(SortDescending(all_items))

-----------------------------------------------------------------------------
(* The documents                                                           *)

tVisit == Tok("W", "visit", 5, -1)
tLidocaine == Tok("W", "lidocaine", 9, -1)
tInjection == Tok("W", "injection", 9, -1)
tHC == Tok("W", "HC", 2, -1)
tTotal == Tok("W", "total", 5, -1)
tJ2003 == Tok("H", "J2003", 5, 2003000)
t99213 == Tok("C", "99213", 5, 99213000)
t55150 == Paren(Tok("C", "55150", 5, 55150000))
t0450 == Tok("R", "0450", 4, 450000)
tDate == Tok("D", "01/15/2024", 10, 1000)
tTwo == Tok("N", "2", 1, 2000)
Currency(s, n, mills) == Tok("A", s, n, mills)
t45 == Currency("45.00", 5, 45000)
t150 == Currency("150.00", 6, 150000)
t12 == Currency("12.50", 5, 12500)
tCents == Currency("0.75", 4, 750)
t80 == Currency("80.00", 5, 80000)

\* lines of page text, as page.extract_text() gives them
TextLines ==
    {<<t99213, tVisit, t150>>,
     <<tJ2003, tLidocaine, tInjection, t45, tTwo>>,
     <<t99213, tJ2003, tLidocaine, t45, tTwo>>,
     <<tLidocaine, tInjection, t12>>,
     <<tTotal, t150>>,
     <<tVisit, tCents>>,
     <<tInjection, tVisit, t80>>}

\* table rows, as page.extract_tables() gives them; <<>> is an empty cell
TableRows ==
    {<< <<tDate>>, <<t0450>>, <<tVisit, t55150>>, <<t99213>>, <<t150>> >>,
     << <<tLidocaine, tInjection>>, <<tJ2003>>, <<t45>> >>,
     << <<tVisit, t45, tLidocaine, t150, tInjection, t12>>, <<>> >>,
     << <<tVisit, t45, tLidocaine, t150, tInjection, t12, tVisit, t45, tLidocaine, t150>>,
        <<>> >>,
     << <<tHC, tVisit, tHC, tLidocaine>>, <<t45>> >>,
     << <<tHC, tHC, tHC>>, <<tLidocaine, t55150, tInjection, tJ2003>>, <<t45>>, <<t12>> >>,
     << <<t99213, tVisit, t150, tJ2003, tLidocaine>>, <<tDate>> >>,
     << <<tVisit>>, <<>> >>,
     << <<tLidocaine, tInjection, t45>> >>}

\* elements of the array the vision model may answer with
RawItems ==
    {RawItem(Some("99213"), <<tVisit>>, {"amount", "description", "quantity"},
             150000, 10, {"amount", "quantity"}),
     RawItem(Some("J2003"), <<tLidocaine, tInjection>>, {"amount", "description", "quantity"},
             12500, 25, {"amount", "quantity"}),
     RawItem(Some("85025"), <<tInjection>>, {"amount", "description", "quantity"},
             45000, 0, {"amount", "quantity"}),
     RawItem(NONE, <<tVisit>>, {"amount", "description"},
             75004, 0, {"amount"}),
     RawItem(NONE, <<tLidocaine>>, {"amount", "description", "quantity"},
             75000, 10, {"amount"}),
     RawItem(NONE, <<tTotal>>, {"amount", "description", "quantity"},
             0, 10, {"amount", "quantity"}),
     RawItem(NONE, <<tVisit>>, {"description", "quantity"},
             0, 10, {"quantity"})}

MaxLines == 2
MaxRows == 2
MaxRawItems == 3

RECURSIVE SeqsUpTo(_, _)
SeqsUpTo(S, n) ==
    IF n = 0 THEN {<<>>}
    ELSE LET shorter == SeqsUpTo(S, n - 1)
         IN  shorter \cup {Append(q, x) : q \in shorter, x \in S}

Page(items) == [ok |-> TRUE, items |-> items]
FailedPage == [ok |-> FALSE, items |-> <<>>]

\* what the vision model answers for the pages of one document
Answers ==
    LET arrays == SeqsUpTo(RawItems, MaxRawItems)
    IN  {<<Page(a)>> : a \in arrays}
        \cup {<<FailedPage, Page(a)>> : a \in arrays}
        \cup {<<Page(a), Page(a)>> : a \in arrays}

-----------------------------------------------------------------------------
(* Extraction of one document                                              *)

InitExtract ==
    /\ pc = "start"
    /\ full_text = <<>>
    /\ line_items = <<>>
    /\ table_rows = 0
    /\ returned = NONE
    /\ IdleAssess /\ IdleMatch /\ IdleCache /\ IdleCode /\ IdleIO /\ IdleCompare /\ IdleRace

\* extract_line_items up to the call of extract_line_items_regex: the
\* vision model's items are returned when there are at least three
ExtractLineItems ==
    /\ pc = "start"
    /\ \E use_llm \in BOOLEAN, available \in BOOLEAN, raises \in BOOLEAN,
          pages \in Answers :
          LET llm_items == extract_with_llm(available, raises, pages)
          IN  IF use_llm /\ available /\ llm_items # NONE /\ Len(Val(llm_items)) >= 3
              THEN /\ returned' = Some([items |-> Val(llm_items), path |-> "vision model"])
                   /\ pc' = "done"
              ELSE /\ returned' = NONE
                   /\ pc' = "text"
    /\ UNCHANGED <<full_text, line_items, table_rows,
                   assessVars, matchVars, cacheVars, codeVars, ioVars, compareVars, raceVars>>

\* lines 67-70: the text of a page is added to full_text
ReadText(line) ==
    /\ pc = "text"
    /\ Len(full_text) < MaxLines
    /\ full_text' = Append(full_text, line)
    /\ UNCHANGED <<pc, line_items, table_rows, returned,
                   assessVars, matchVars, cacheVars, codeVars, ioVars, compareVars, raceVars>>

\* lines 102-110: one row of one table
ReadTableRow(row) ==
    /\ pc \in {"text", "tables"}
    /\ table_rows < MaxRows
    /\ pc' = "tables"
    /\ table_rows' = table_rows + 1
    /\ line_items' = IF Len(row) >= 2
                     THEN line_items \o parse_table_row_with_split(row)
                     ELSE line_items
    /\ UNCHANGED <<full_text, returned, assessVars, matchVars, cacheVars, codeVars, ioVars, compareVars, raceVars>>

\* lines 114-153: the two text strategies, the fallback and the sort
FinishStrategies ==
    /\ pc \in {"text", "tables"}
    /\ pc' = "done"
    /\ returned' = Some(AfterTables(line_items, full_text))
    /\ UNCHANGED <<full_text, line_items, table_rows,
                   assessVars, matchVars, cacheVars, codeVars, ioVars, compareVars, raceVars>>

\* lines 138-140: an exception anywhere in the try block
RaiseException ==
    /\ pc \in {"text", "tables"}
    /\ pc' = "done"
    /\ returned' = Some([items |-> get_mock_line_items, path |-> "exception"])
    /\ UNCHANGED <<full_text, line_items, table_rows,
                   assessVars, matchVars, cacheVars, codeVars, ioVars, compareVars, raceVars>>

NextExtract ==
    \/ ExtractLineItems
    \/ \E line \in TextLines : ReadText(line)
    \/ \E row \in TableRows : ReadTableRow(row)
    \/ FinishStrategies
    \/ RaiseException

SpecExtract == InitExtract /\ [][NextExtract]_vars

Returned == pc = "done" /\ returned # NONE
Items == Val(returned).items
FromRegex == Val(returned).path \in {"strategies", "nothing found", "exception"}

\* C1: extract_line_items_regex never returns an empty list: whatever the
\* document holds, and wherever its processing raises, the list returned
\* has at least one item, the exemplar list in a document that yields
\* nothing and after an exception.
C1_NeverEmpty ==
    (Returned /\ FromRegex) =>
        /\ Len(Items) >= 1
        /\ Val(returned).path \in {"nothing found", "exception"} =>
               Items = get_mock_line_items

C1_Witness ==
    /\ Returned
    /\ Val(returned).path = "nothing found"
    /\ table_rows = MaxRows
    /\ full_text # <<>>
    /\ Len(Items) = 5

SortedByAmount(items) ==
    \A i \in 1..(Len(items) - 1) : items[i].amount >= items[i + 1].amount

\* C2: every list extract_line_items_regex returns is sorted by descending
\* amount, on the path where the strategies found items, on the path where
\* they found nothing and on the path where an exception was raised.
C2_SortedOnEveryPath == (Returned /\ FromRegex) => SortedByAmount(Items)

\* C3: every item of every list extract_line_items returns, from the regex
\* strategies, the splitters, the exemplar list or the vision model, has
\* amount > 0 and quantity >= 1.
C3_PositiveAmountAndQuantity ==
    Returned =>
        \A i \in 1..Len(Items) : Items[i].amount > 0 /\ Items[i].quantity >= 1

\* C20: whatever the number of items the tables gave, after strategy 2 the
\* amount of every item the text patterns found is the amount of some item
\* of the running list.
C20_TextItemsAlwaysMerged ==
    (Returned /\ Val(returned).path \in {"strategies", "nothing found"}) =>
        \A i \in 1..Len(Val(returned).text_items) :
            \E k \in 1..Len(Val(returned).after_text) :
                Val(returned).after_text[k].amount
                    = Val(returned).text_items[i].amount

\* The running list after strategy 2 and after strategy 3, and the items
\* strategy 3 added, of a list the regex strategies returned.
AfterText == Val(returned).after_text
AfterAggressive == Val(returned).after_aggressive
ByStrategies == Returned /\ Val(returned).path = "strategies"

\* C21: the aggressive strategy adds items only when the running list after
\* the table and text-pattern strategies holds fewer than 10 items; every
\* item it adds has an amount above 1 and below 100,000 that no item
\* already in the list has; with 10 items or more the list returned is the
\* list of strategies 1 and 2, sorted.
C21_AggressiveGatedAndBounded ==
    ByStrategies =>
        /\ Len(AfterAggressive) >= Len(AfterText)
        /\ SubSeq(AfterAggressive, 1, Len(AfterText)) = AfterText
        /\ Len(AfterText) >= 10 => AfterAggressive = AfterText
        /\ \A k \in (Len(AfterText) + 1)..Len(AfterAggressive) :
              /\ AfterAggressive[k].amount > 1000
              /\ AfterAggressive[k].amount < 100000000
              /\ \A j \in 1..(k - 1) :
                    AfterAggressive[j].amount # AfterAggressive[k].amount
        /\ Items = SortDescending(AfterAggressive)

\* the tables gave 10 items and the text holds a line strategy 3 would take
C21_Witness ==
    /\ ByStrategies
    /\ Len(AfterText) >= 10
    /\ \E i \in 1..Len(extract_from_text_aggressive(full_text)) :
          \A j \in 1..Len(AfterText) :
              AfterText[j].amount # extract_from_text_aggressive(full_text)[i].amount

\* The number of cells of a row that are not empty.
NonEmptyCells(row) == Cardinality({i \in 1..Len(row) : row[i] # <<>>})

\* C24: a table row with fewer than 2 non-empty cells adds no item to the
\* list, whether it is parsed as one item or split as a merged cell.
C24_FewCellsNoItem ==
    [][\A row \in TableRows :
          (ReadTableRow(row) /\ NonEmptyCells(row) < 2) =>
              line_items' = line_items]_vars

\* Which splitter parse_table_row_with_split hands the row to, looking from
\* cell i on; "none" when the row is parsed as one item.
RECURSIVE SplitterFrom(_, _)
SplitterFrom(row, i) ==
    IF i > Len(row) THEN "none"
    ELSE IF row[i] = <<>> THEN SplitterFrom(row, i + 1)
    ELSE IF Len(Amounts(row[i])) >= 2 THEN "split_merged_cell"
    ELSE IF Cardinality(HCStarts(row[i])) >= 2 THEN "split_merged_descriptions"
    ELSE IF TextLen(row[i]) > 20 /\ Len(SelectSeq(row[i], IsCode)) >= 2
         THEN "split_by_codes"
    ELSE SplitterFrom(row, i + 1)

\* The amounts of a list of items, in order.
ItemAmounts(items) == [i \in 1..Len(items) |-> items[i].amount]

\* C30: the items a splitter makes of a table row are no more than the
\* currency numerals in the row, and their amounts add up to no more than
\* those numerals do: no numeral is given to two items, and a segment
\* without a numeral of its own gives no item.
C30_NumeralsNotShared ==
    [][\A row \in TableRows :
          (ReadTableRow(row) /\ Len(row) >= 2 /\ SplitterFrom(row, 1) # "none") =>
              /\ Len(line_items') - Len(line_items) <= Len(Amounts(Concat(row)))
              /\ SumSeq(ItemAmounts(line_items')) - SumSeq(ItemAmounts(line_items))
                     <= SumSeq(Amounts(Concat(row)))]_vars

-----------------------------------------------------------------------------
(* The code pickers on their own: one text, line or row in, the codes of   *)
(* the items out                                                           *)

CodeTokens == {t99213, tJ2003, t55150, tLidocaine, t45, tTwo}
MaxCodeTokens == 4
CodePickers == {"extract_code", "extract_from_text", "parse_table_row"}

\* a table row with each token of the text in a cell of its own
AsRow(text) == [i \in 1..Len(text) |-> <<text[i]>>]

InitCode ==
    /\ code_in \in {[by |-> picker, text |-> text] :
                       picker \in CodePickers,
                       text \in SeqsUpTo(CodeTokens, MaxCodeTokens)}
    /\ code_out = NONE
    /\ IdleAssess /\ IdleMatch /\ IdleCache /\ IdleExtract /\ IdleIO /\ IdleCompare /\ IdleRace

ExtractCode ==
    /\ code_in.by = "extract_code"
    /\ code_out = NONE
    /\ code_out' = Some(<<extract_code(code_in.text)>>)
    /\ UNCHANGED <<code_in, assessVars, matchVars, cacheVars, extractVars, ioVars, compareVars, raceVars>>

ExtractFromText ==
    /\ code_in.by = "extract_from_text"
    /\ code_out = NONE
    /\ LET items == extract_from_text(<<code_in.text>>)
       IN  code_out' = Some([i \in 1..Len(items) |-> items[i].code])
    /\ UNCHANGED <<code_in, assessVars, matchVars, cacheVars, extractVars, ioVars, compareVars, raceVars>>

ParseTableRow ==
    /\ code_in.by = "parse_table_row"
    /\ code_out = NONE
    /\ LET item == parse_table_row(AsRow(code_in.text))
       IN  code_out' = Some(IF item = NONE THEN <<>> ELSE <<Val(item).code>>)
    /\ UNCHANGED <<code_in, assessVars, matchVars, cacheVars, extractVars, ioVars, compareVars, raceVars>>

NextCode == ExtractCode \/ ExtractFromText \/ ParseTableRow

SpecCode == InitCode /\ [][NextCode]_vars

LetterCodes(text) == {text[i].s : i \in {j \in 1..Len(text) : IsHcpcs(text[j])}}
HoldsBothKinds(text) ==
    /\ \E i \in 1..Len(text) : IsHcpcs(text[i])
    /\ \E i \in 1..Len(text) : IsCpt(text[i])

\* C4: for every row or text line that holds both a letter-plus-4-digit
\* token and a 5-digit token, the code of each resulting item is the
\* letter-plus-4-digit one, whichever of parse_table_row, extract_code and
\* the two patterns of extract_from_text assigned it.
C4_LetterCodeChosen ==
    (code_out # NONE /\ HoldsBothKinds(code_in.text)) =>
        \A i \in 1..Len(Val(code_out)) :
            /\ Val(code_out)[i] # NONE
            /\ Val(Val(code_out)[i]) \in LetterCodes(code_in.text)

\* The candidate codes of the highest tier present in a row, by column.
TopTierCandidates(row) ==
    IF CodesByColumn(row, 1, "H") # <<>> THEN CodesByColumn(row, 1, "H")
    ELSE IF CodesByColumn(row, 1, "C") # <<>> THEN CodesByColumn(row, 1, "C")
    ELSE CodesByColumn(row, 1, "R")

\* C22: when a row holds candidate codes of one tier in several columns,
\* the code parse_table_row gives the item is the candidate of the later
\* column: of the candidates of its tier, the one in the last column.
C22_LaterColumnPreferred ==
    (/\ code_in.by = "parse_table_row"
     /\ code_out # NONE /\ Val(code_out) # <<>>
     /\ TopTierCandidates(AsRow(code_in.text)) # <<>>) =>
        LET candidates == TopTierCandidates(AsRow(code_in.text))
        IN  Val(code_out)[1] = Some(candidates[Len(candidates)][2])

-----------------------------------------------------------------------------
(* Batch resolution and bill comparison:                                   *)
(* CMSDataService.get_pricing_for_codes and routes/compare.py              *)

\* How a request to the remote dataset can end: rows (maybe none), a
\* transport error, an HTTP error status, or a body that is not JSON.
Rows(rows) == [kind |-> "rows", rows |-> rows]
Failure(kind) == [kind |-> kind, rows |-> <<>>]

\* Only the failures that are subclasses of httpx.HTTPError are caught.
HTTPErrorOnly == {"transport_error", "http_status"}

\* `except httpx.HTTPError` (transport errors and raise_for_status) and
\* `except json.JSONDecodeError`
CaughtFailures == {"transport_error", "http_status", "bad_json"}

\* _fetch_from_cms: the rows, None after a caught failure, or the exception
\* leaves the method.
_fetch_from_cms(answer) ==
    IF answer.kind = "rows" THEN [raised |-> FALSE, data |-> Some(answer.rows)]
    ELSE IF answer.kind \in CaughtFailures THEN [raised |-> FALSE, data |-> NONE]
    ELSE [raised |-> TRUE, data |-> NONE]

\* len(code), for the codes that occur here
CodeLength(code) == IF code = "0450" THEN 4 ELSE 5

\* len(code) == 4 and code.startswith('0')
IsRevenueCode(code) == CodeLength(code) = 4 /\ FirstCharUpper(code) = "0"

RevenueCodeResult(code) ==
    [hcpcs_code |-> code, has_data |-> FALSE, has_reliable_data |-> FALSE,
     note |-> "Revenue code - not in HCPCS dataset"]

\* One round of the loop of get_pricing_for_codes, once the requests are
\* answered: fetched and refetched are what _fetch_from_cms made of the two
\* answers, done is what get_combined_pricing returned.  The round is
\* recorded in calls with the kinds of the answers its requests got and
\* the codes they asked for.
RecordRound(acc, code, answer, fetched, refetched, done) ==
    LET sent == IF done.env.requests = 0 THEN <<>>
                ELSE IF done.env.requests = 1 THEN <<answer.direct.kind>>
                ELSE <<answer.direct.kind, answer.retry.kind>>
        raised == \/ done.env.requests >= 1 /\ fetched.raised
                  \/ done.env.requests = 2 /\ refetched.raised
    IN  IF code = "" THEN acc
        ELSE IF IsRevenueCode(code)
        THEN [acc EXCEPT !.results = (code :> RevenueCodeResult(code)) @@ @,
                         !.calls = Append(@, [code |-> code, sent |-> <<>>,
                                              queried |-> <<>>,
                                              result |-> RevenueCodeResult(code)])]
        ELSE IF raised THEN [acc EXCEPT !.raised = TRUE]
        ELSE [acc EXCEPT !.results = (code :> done.out) @@ @,
                         !.store = done.env.store,
                         !.calls = Append(@, [code |-> code, sent |-> sent,
                                              queried |-> done.env.queried,
                                              result |-> done.out])]

\* One round of the loop of get_pricing_for_codes.  answer holds what the
\* remote dataset gives to the request for the code and to the request for
\* its crosswalk predecessor, should they be sent.
PricingRound(acc, pair, answer, t) ==
    RecordRound(acc, pair[1], answer,
                _fetch_from_cms(answer.direct), _fetch_from_cms(answer.retry),
                get_combined_pricing(acc.store, pair[1], pair[2], t,
                                     _fetch_from_cms(answer.direct).data,
                                     _fetch_from_cms(answer.retry).data))

RECURSIVE PricingLoop(_, _, _, _)
PricingLoop(acc, pairs, answers, t) ==
    IF pairs = <<>> \/ acc.raised THEN acc
    ELSE PricingLoop(PricingRound(acc, pairs[1], answers[1], t),
                     Tail(pairs), Tail(answers), t)

\* results is the dictionary returned, code -> resolver result.
get_pricing_for_codes(store, code_description_pairs, answers, t) ==
    PricingLoop([raised |-> FALSE, results |-> <<>>, store |-> store,
                 calls |-> <<>>],
                code_description_pairs, answers, t)

\* HOSPITALS and HOSPITAL_PRICES, the part of them used here
get_hospital(hospital_id) ==
    IF hospital_id = "duke_main" THEN Some([id |-> "duke_main"]) ELSE NONE

get_price_for_code(hospital_id, cpt_code) ==
    IF hospital_id = "duke_main" /\ cpt_code = "99213"
    THEN Some([gross_charge |-> Some(385000), negotiated_rate |-> Some(192000)])
    ELSE NONE

\* The resolver result as assess_price_cms reads it: the two drug figures
\* and the average of each payment statistic.
AsCmsData(cms_pricing) ==
    Some([drug_pricing |->
              IF cms_pricing.drug_pricing = NONE THEN NONE
              ELSE Some([avg_spending_per_unit |->
                             Val(cms_pricing.drug_pricing).avg_spending_per_unit,
                         asp_price |-> Val(cms_pricing.drug_pricing).asp_price]),
          facility_fee |-> NONE,
          physician_fee |->
              IF cms_pricing.physician_fee = NONE THEN NONE
              ELSE Some([average |->
                  Some(Val(cms_pricing.physician_fee).medicare_payment.average)])])

\* `if item.code`: neither None nor the empty string
HasCode(item) == item.code # NONE /\ Val(item.code) # ""

\* Unreliable data is used as long as there is data.
UsesCmsDataIfAny(cms_pricing) ==
    cms_pricing # NONE /\ Val(cms_pricing).has_data

\* `cms_pricing and cms_pricing.get("has_reliable_data", ...)`
UsesCmsData(cms_pricing) ==
    cms_pricing # NONE /\ Val(cms_pricing).has_reliable_data

\* The assessments one item can get, each with the branch that made it.
Scored(item, cms_pricing_data, hospital_id) ==
    LET cms_pricing ==
            IF HasCode(item) /\ Val(item.code) \in DOMAIN cms_pricing_data
            THEN Some(cms_pricing_data[Val(item.code)]) ELSE NONE
        hospital_price ==
            IF HasCode(item) THEN get_price_for_code(hospital_id, Val(item.code))
            ELSE NONE
    IN  IF UsesCmsData(cms_pricing)
        THEN {[by |-> "cms", assessment |-> a] :
                 a \in assess_price_cms(item.amount, AsCmsData(Val(cms_pricing)))}
        ELSE IF hospital_price # NONE
        THEN {[by |-> "mock", assessment |-> a] :
                 a \in assess_price_mock(item.amount, Val(hospital_price).gross_charge,
                                         Val(hospital_price).negotiated_rate)}
        ELSE {[by |-> "none", assessment |-> UnknownAssessment]}

\* One round of the item loop of compare_charges.
ItemRound(acc, item, scored) ==
    LET a == scored.assessment
        resolved == a.fair_price # NONE
    IN  [comparisons |->
             Append(acc.comparisons,
                    [code |-> item.code, description |-> item.description,
                     billed_amount |-> item.amount, quantity |-> item.quantity,
                     status |-> a.status, variance_percent |-> a.variance,
                     potential_savings |-> a.savings,
                     fair_price |-> a.fair_price, by |-> scored.by]),
         total_billed |-> acc.total_billed + item.amount * item.quantity,
         total_fair_value |-> acc.total_fair_value
             + (IF resolved THEN Val(a.fair_price) * item.quantity ELSE 0),
         total_potential_savings |-> acc.total_potential_savings
             + (IF resolved /\ Truthy(a.savings)
                THEN Val(a.savings) * item.quantity ELSE 0),
         items_with_data |-> acc.items_with_data + (IF resolved THEN 1 ELSE 0)]

RECURSIVE ItemLoop(_, _, _, _)
ItemLoop(acc, items, cms_pricing_data, hospital_id) ==
    IF items = <<>> THEN {acc}
    ELSE UNION {ItemLoop(ItemRound(acc, items[1], scored), Tail(items),
                         cms_pricing_data, hospital_id) :
                   scored \in Scored(items[1], cms_pricing_data, hospital_id)}

\* savings > billed * 0.3 (or 0.15): decided by the floating point product,
\* which on an exact tie can fall on either side.
Exceeds(savings, billed, percent) ==
    IF 100 * savings = percent * billed /\ savings # 0 THEN {TRUE, FALSE}
    ELSE {100 * savings > percent * billed}

\* The verdicts the chain of comparisons can give.
OverallAssessment(items_with_data, total_potential_savings, total_billed) ==
    IF items_with_data = 0 THEN {"insufficient_data"}
    ELSE {IF significantly THEN "significantly_overcharged"
          ELSE IF moderately THEN "moderately_overcharged"
          ELSE IF total_potential_savings > 0 THEN "slightly_overcharged"
          ELSE "fair" :
             significantly \in Exceeds(total_potential_savings, total_billed, 30),
             moderately \in Exceeds(total_potential_savings, total_billed, 15)}

\* round(x, 2) of an amount in mills
RoundCents(x) == {10 * c : c \in RoundSet(x, 10)}

\* The CompareResponse objects built from the sums of the item loop.  Of
\* each comparison the fields copied for display (the CMS summary, the
\* regional statistics, the other hospitals) and the list of data sources
\* are left out; fair_price and by record the branch that scored the item,
\* batch what get_pricing_for_codes did.
CompareResponse(acc, batch, cms_pricing_data) ==
    {[raised |-> NONE,
      batch |-> batch,
      cms_pricing_data |-> cms_pricing_data,
      total_billed |-> billed,
      total_fair_value |-> fair,
      total_potential_savings |-> savings,
      overall_assessment |-> verdict,
      line_items |-> acc.comparisons] :
        billed \in RoundCents(acc.total_billed),
        fair \in (IF acc.items_with_data > 0
                  THEN {Some(f) : f \in RoundCents(acc.total_fair_value)}
                  ELSE {NONE}),
        savings \in (IF acc.total_potential_savings > 0
                     THEN {Some(v) : v \in RoundCents(acc.total_potential_savings)}
                     ELSE {NONE}),
        verdict \in OverallAssessment(acc.items_with_data,
                                      acc.total_potential_savings,
                                      acc.total_billed)}

\* The positions of the items that carry a code, in order.
RECURSIVE WithCode(_, _)
WithCode(items, i) ==
    IF i > Len(items) THEN <<>>
    ELSE (IF HasCode(items[i]) THEN <<i>> ELSE <<>>)
            \o WithCode(items, i + 1)

\* code_desc_pairs: code and description of the items that carry a code
CodeDescPairs(items) ==
    LET with_code == WithCode(items, 1)
    IN  [k \in 1..Len(with_code) |->
            <<Val(items[with_code[k]].code), items[with_code[k]].description>>]

\* The answers to the requests of the items that carry a code.
AnswersAsked(items, answers) ==
    LET with_code == WithCode(items, 1)
    IN  [k \in 1..Len(with_code) |-> answers[with_code[k]]]

\* compare_charges after the batch lookup: asked tells whether it was made,
\* batch what it did.  An exception of the batch lookup is caught and the
\* bill is compared without CMS data.
CompareWith(request, asked, batch) ==
    LET cms_pricing_data == IF asked /\ ~batch.raised THEN batch.results ELSE <<>>
    IN  IF get_hospital(request.hospital_id) = NONE
        THEN {[raised |-> Some(404)]}
        ELSE UNION {CompareResponse(acc, IF asked THEN Some(batch) ELSE NONE,
                                    cms_pricing_data) :
                       acc \in ItemLoop([comparisons |-> <<>>, total_billed |-> 0,
                                         total_fair_value |-> 0,
                                         total_potential_savings |-> 0,
                                         items_with_data |-> 0],
                                        request.line_items, cms_pricing_data,
                                        request.hospital_id)}

\* The cache keys of the codes bills are made of here.
BillCodes == Codes \cup {"J2001"}
BillCacheKeys == {_get_cache_key(op, c) : op \in CacheOps, c \in BillCodes}

\* The responses compare_charges can give to a request; answers[i] is what
\* the remote dataset gives to the requests made for item i.  The cache is
\* empty when the request arrives.
compare_charges(request, answers, t) ==
    CompareWith(request,
                request.use_cms_data /\ CodeDescPairs(request.line_items) # <<>>,
                get_pricing_for_codes([k \in BillCacheKeys |-> NONE],
                                      CodeDescPairs(request.line_items),
                                      AnswersAsked(request.line_items, answers), t))

\* The items bills are made of here: office visits billed at and above the
\* reference price, one described as an incision, a drug without
\* description, its crosswalk predecessor, an item without code and one
\* under a revenue code.
LineItemInput(code, description, quantity, amount) ==
    [code |-> code, description |-> description, quantity |-> quantity,
     amount |-> amount]

PhysicianData ==
    Rows(<<PhysicianRow(Some(100000), Some(250000), <<"visit">>)>>)
DrugData(queried) == Rows(<<DrugRow(queried, Some(33333), NONE)>>)
Unasked == [direct |-> Failure("transport_error"), retry |-> Failure("transport_error")]
Once(answer) == [direct |-> answer, retry |-> Failure("transport_error")]

\* Each item with the answers its requests can get.
BilledItems ==
    {[item |-> LineItemInput(Some("99213"), <<"visit">>, 1, 150000),
      answer |-> Once(a)] :
        a \in {PhysicianData} \cup {Failure(k) : k \in CaughtFailures}}
    \cup
    {[item |-> LineItemInput(Some("99213"), <<"visit">>, 2, 170000),
      answer |-> Once(a)] : a \in {PhysicianData, Failure("http_status")}}
    \cup
    {[item |-> LineItemInput(Some("99213"), <<"incision">>, 1, 400000),
      answer |-> Once(a)] : a \in {PhysicianData, Failure("transport_error")}}
    \cup
    {[item |-> LineItemInput(Some(DrugCode), <<>>, 1, 50000),
      answer |-> [direct |-> a, retry |-> b]] :
        a \in {Failure("transport_error"), Rows(<<>>)},
        b \in {Failure("bad_json"), DrugData("J2001")}}
    \cup
    {[item |-> LineItemInput(Some(DrugCode), <<>>, 1, 50000),
      answer |-> Once(DrugData(DrugCode))],
     [item |-> LineItemInput(Some("J2001"), <<>>, 1, 50000),
      answer |-> [direct |-> Rows(<<>>), retry |-> DrugData("J2001")]],
     [item |-> LineItemInput(NONE, <<"visit">>, 1, 50000), answer |-> Unasked],
     [item |-> LineItemInput(Some("0450"), <<"visit">>, 1, 100000),
      answer |-> Unasked]}

\* The largest bill tried.
MaxItems == 2

CompareOptions ==
    {[hospital_id |-> "duke_main", use_cms_data |-> TRUE],
     [hospital_id |-> "duke_main", use_cms_data |-> FALSE],
     [hospital_id |-> "nowhere", use_cms_data |-> TRUE]}

InitCompare ==
    /\ IdleAssess /\ IdleMatch /\ IdleCache /\ IdleExtract /\ IdleCode /\ IdleIO
    /\ IdleRace
    /\ compare_out = NONE
    /\ \E bill \in SeqsUpTo(BilledItems, MaxItems), o \in CompareOptions :
          compare_in =
              [request |-> [line_items |-> [i \in 1..Len(bill) |-> bill[i].item],
                            hospital_id |-> o.hospital_id,
                            use_cms_data |-> o.use_cms_data],
               answers |-> [i \in 1..Len(bill) |-> bill[i].answer]]

\* POST /compare, from the request to the response
CompareCharges ==
    /\ compare_in # <<>> /\ compare_out = NONE
    /\ \E response \in compare_charges(compare_in.request, compare_in.answers, 0) :
          compare_out' = Some(response)
    /\ UNCHANGED <<compare_in, assessVars, matchVars, cacheVars, extractVars,
                   codeVars, ioVars, raceVars>>

NextCompare == CompareCharges

SpecCompare == InitCompare /\ [][NextCompare]_vars

\* What the comparison under way was asked and what it answered.
Request == compare_in.request
Response == Val(compare_out)
Compared == compare_out # NONE /\ Val(compare_out).raised = NONE
BatchRun == Compared /\ Response.batch # NONE
Batch == Val(Response.batch)
CodedItems == WithCode(Request.line_items, 1)

\* The lookup of the round sent a request that failed.
RequestFailed(round) ==
    \E j \in 1..Len(round.sent) : round.sent[j] \in CaughtFailures
NoData(result) == ~result.has_data /\ ~result.has_reliable_data

\* C15 as stated: no failure of a remote request leaves
\* get_pricing_for_codes; every code of the batch has its result, and the
\* result of a lookup that met a failed request has has_data = false and
\* has_reliable_data = false.
C15_FailedRequestGivesNoData ==
    BatchRun =>
        /\ ~Batch.raised
        /\ Len(Batch.calls) = Len(CodedItems)
        /\ \A k \in 1..Len(CodedItems) :
               /\ Batch.calls[k].code = Val(Request.line_items[CodedItems[k]].code)
               /\ Batch.calls[k].code \in DOMAIN Batch.results
        /\ \A k \in 1..Len(Batch.calls) :
               RequestFailed(Batch.calls[k]) => NoData(Batch.calls[k].result)

\* C15 as amended: the same, but the result of a lookup that met a failed
\* request has has_data = false and has_reliable_data = false unless the
\* request for the crosswalk predecessor of the code, sent after the
\* failure, returned rows.
C15_FailedLookupGivesNoData ==
    BatchRun =>
        /\ ~Batch.raised
        /\ Len(Batch.calls) = Len(CodedItems)
        /\ \A k \in 1..Len(CodedItems) :
               /\ Batch.calls[k].code = Val(Request.line_items[CodedItems[k]].code)
               /\ Batch.calls[k].code \in DOMAIN Batch.results
        /\ \A k \in 1..Len(Batch.calls) :
               (RequestFailed(Batch.calls[k])
                    /\ Batch.calls[k].sent[Len(Batch.calls[k].sent)] # "rows") =>
                   NoData(Batch.calls[k].result)

\* C15 witness: in a batch of two codes the lookup of the first met a body
\* that was no JSON and gave no data, and the second was resolved with data.
C15_Witness ==
    /\ BatchRun
    /\ Len(Batch.calls) = 2
    /\ Batch.calls[1].sent = <<"bad_json">>
    /\ NoData(Batch.calls[1].result)
    /\ Batch.calls[2].sent = <<"rows">>
    /\ Batch.calls[2].result.has_data
    /\ Batch.calls[2].code # Batch.calls[1].code

\* The sums of amount, savings and fair price, each times the quantity, over
\* the comparisons that have a fair price.
RECURSIVE BilledSum(_)
BilledSum(comparisons) ==
    IF comparisons = <<>> THEN 0
    ELSE (IF comparisons[1].fair_price = NONE THEN 0
          ELSE comparisons[1].billed_amount * comparisons[1].quantity)
         + BilledSum(Tail(comparisons))

RECURSIVE SavingsSum(_)
SavingsSum(comparisons) ==
    IF comparisons = <<>> THEN 0
    ELSE (IF comparisons[1].potential_savings = NONE THEN 0
          ELSE Val(comparisons[1].potential_savings) * comparisons[1].quantity)
         + SavingsSum(Tail(comparisons))

RECURSIVE FairSum(_)
FairSum(comparisons) ==
    IF comparisons = <<>> THEN 0
    ELSE (IF comparisons[1].fair_price = NONE THEN 0
          ELSE Val(comparisons[1].fair_price) * comparisons[1].quantity)
         + FairSum(Tail(comparisons))

ResolvedItems ==
    {i \in 1..Len(Response.line_items) : Response.line_items[i].fair_price # NONE}

\* The verdict the thresholds give for these savings against this total.
Verdicts(resolved, savings, billed) ==
    IF resolved = 0 THEN {"insufficient_data"}
    ELSE IF 100 * savings > 30 * billed THEN {"significantly_overcharged"}
    ELSE IF 100 * savings > 15 * billed THEN {"moderately_overcharged"}
    ELSE IF savings > 0 THEN {"slightly_overcharged"}
    ELSE {"fair"}

\* C18: the billed total and the fair value total of the response are the
\* sums over exactly the items that had a fair price, and the verdict is
\* insufficient_data when no item had one, else significantly_overcharged
\* when the savings exceed 30% of that billed total, moderately_overcharged
\* when they exceed 15%, slightly_overcharged when they are positive, else
\* fair.
C18_RollupOverResolvedItems ==
    Compared =>
        LET billed == BilledSum(Response.line_items)
            savings == SavingsSum(Response.line_items)
        IN  /\ Response.total_billed \in RoundCents(billed)
            /\ ResolvedItems # {} =>
                   /\ Response.total_fair_value # NONE
                   /\ Val(Response.total_fair_value)
                          \in RoundCents(FairSum(Response.line_items))
            /\ Response.overall_assessment
                   \in Verdicts(Cardinality(ResolvedItems), savings, billed)

\* The resolver result compare_charges holds for the code of item i.
HeldFor(i) == Response.cms_pricing_data[Val(Request.line_items[i].code)]
Held(i) ==
    /\ HasCode(Request.line_items[i])
    /\ Val(Request.line_items[i].code) \in DOMAIN Response.cms_pricing_data

Assessment(c) ==
    [status |-> c.status, variance |-> c.variance_percent,
     savings |-> c.potential_savings, fair_price |-> c.fair_price]

\* C19: an item is scored by assess_price_cms only if it has a code and the
\* resolver result held for that code is reliable; an item whose resolver
\* result is not reliable is scored by assess_price_mock on the fallback
\* dataset or is 'unknown'; an item without code is 'unknown' with null
\* variance and savings.
C19_AuthoritativeOnlyWhenReliable ==
    Compared =>
        \A i \in 1..Len(Request.line_items) :
            LET item == Request.line_items[i]
                c == Response.line_items[i]
                fallback == get_price_for_code(Request.hospital_id, Val(item.code))
            IN  /\ c.by = "cms" =>
                       /\ Held(i) /\ HeldFor(i).has_reliable_data
                       /\ Assessment(c) \in
                              assess_price_cms(item.amount, AsCmsData(HeldFor(i)))
                /\ (Held(i) /\ ~HeldFor(i).has_reliable_data) =>
                       IF fallback # NONE
                       THEN /\ c.by = "mock"
                            /\ Assessment(c) \in
                                   assess_price_mock(item.amount,
                                       Val(fallback).gross_charge,
                                       Val(fallback).negotiated_rate)
                       ELSE c.by = "none" /\ Assessment(c) = UnknownAssessment
                /\ ~HasCode(item) =>
                       /\ c.status = "unknown"
                       /\ c.variance_percent = NONE
                       /\ c.potential_savings = NONE

\* C19 witness: in one bill a drug with a reliable resolver result was
\* scored by assess_price_cms and an office visit whose description did not
\* match the resolver's was scored on the fallback dataset.
C19_Witness ==
    /\ Compared
    /\ \E i, j \in 1..Len(Request.line_items) :
           /\ Response.line_items[i].by = "cms"
           /\ Response.line_items[i].status = "high"
           /\ Held(j) /\ HeldFor(j).has_data /\ ~HeldFor(j).has_reliable_data
           /\ Response.line_items[j].by = "mock"
           /\ Response.line_items[j].status = "very_high"

\* What the remote dataset had for the requests of round k of the batch.
AnswerOf(k) == AnswersAsked(Request.line_items, compare_in.answers)[k]
DirectGaveNoRows(k) == NoRows(_fetch_from_cms(AnswerOf(k).direct).data)
DrugLookups ==
    {k \in 1..Len(Batch.calls) :
        _is_drug_code(Batch.calls[k].code) /\ Batch.calls[k].queried # <<>>}
Predecessor(code) == Val(CODE_CROSSWALK(code))

\* C23: a drug lookup whose code is in the crosswalk table and whose direct
\* request gave no rows sends exactly one further request, for the
\* predecessor code; a lookup of a code outside the table, or whose direct
\* request gave rows, sends the direct request only; and what the request
\* for the predecessor gave is reported and cached under the code that was
\* asked for.
C23_CrosswalkRetriedOnce ==
    BatchRun =>
        \A k \in DrugLookups :
            LET round == Batch.calls[k]
                code == round.code
                drug_key == _get_cache_key("drug", code)
            IN  /\ IF CODE_CROSSWALK(code) # NONE /\ DirectGaveNoRows(k)
                   THEN round.queried = <<code, Predecessor(code)>>
                   ELSE round.queried = <<code>>
                /\ (Len(round.queried) = 2 /\ round.result.drug_pricing # NONE) =>
                       /\ round.result.hcpcs_code = code
                       /\ Val(round.result.drug_pricing).hcpcs_code = code
                       /\ Val(round.result.drug_pricing).original_code
                              = Predecessor(code)
                       /\ Batch.store[drug_key] # NONE
                       /\ Val(Batch.store[drug_key]).data = round.result.drug_pricing

\* C23 witness: one bill holds a code of the table whose direct request gave
\* no rows and whose predecessor gave a price, and the predecessor itself,
\* outside the table, whose direct request gave no rows.
C23_Witness ==
    /\ BatchRun
    /\ \E k, m \in DrugLookups :
          /\ Batch.calls[k].queried = <<DrugCode, Predecessor(DrugCode)>>
          /\ Batch.calls[k].sent = <<"rows", "rows">>
          /\ Batch.calls[k].result.drug_pricing # NONE
          /\ CODE_CROSSWALK(Batch.calls[m].code) = NONE
          /\ DirectGaveNoRows(m)
          /\ Batch.calls[m].queried = <<Batch.calls[m].code>>

\* C28: the resolver result under whose reliability verdict an item with a
\* code is scored was reached by get_combined_pricing for that item's code
\* and a description equal to that item's own, also when another item of the
\* bill has the same code and another description.
C28_JudgedByOwnDescription ==
    (BatchRun /\ ~Batch.raised) =>
        \A k \in 1..Len(CodedItems) :
            Held(CodedItems[k]) =>
                \E j \in 1..Len(CodedItems) :
                    /\ Request.line_items[CodedItems[j]].code
                           = Request.line_items[CodedItems[k]].code
                    /\ Request.line_items[CodedItems[j]].description
                           = Request.line_items[CodedItems[k]].description
                    /\ HeldFor(CodedItems[k]) = Batch.calls[j].result

=============================================================================
